---- MODULE Spec2Model ----
(***************************************************************************)
(* Model of the gallery ingestion pipeline of tyr-blog-img:                *)
(*   internal/gallery/service.go   Service.StoreToGallery, orientationLock *)
(*   internal/database/d1.go       the D1 client (gallery_images table)    *)
(*   internal/storage/r2.go        the R2 client (PutObject, DeleteObject) *)
(*   gallery image processor       HybridWebPProcessor.Prepare             *)
(*                                                                         *)
(* One Service instance, its D1 tables and its R2 bucket.  Every remote    *)
(* call of StoreToGallery is one atomic step; a remote call either takes   *)
(* effect and answers, or fails and leaves the store unchanged (the store  *)
(* contract ok|error).  Strings that the code trims are sequences of       *)
(* one-character strings, so that strings.TrimSpace is computed.           *)
(***************************************************************************)
EXTENDS Integers, Sequences, FiniteSets, TLC

\* Number of StoreToGallery calls issued on the Service.
MaxCalls == 2
\* seq of the record that exists before the first call (orientation h).
PreSeq == 2

Calls == 1..MaxCalls

VARIABLES
    records,    \* rows of gallery_images
    blobs,      \* objects of the R2 bucket: [key, data]
    blocklist,  \* block_key column of ingest_blocklist
    mu,         \* Service.muH / Service.muV: TRUE when locked
    pc,         \* position of each StoreToGallery call
    in,         \* StoreInput of each call, after the trimming of lines 62-66
    prepared,   \* PreparedImage of each call
    lock,       \* the mutex each call holds ("" when none)
    seq,        \* seq allocated to each call (0 when none)
    res,        \* StoreResult and error of each returned call
    log,        \* the store and processor calls each call has made, in order,
                \* each with whether it returned without error
    before,     \* the calls that had returned Added=true when each call started
    cancelled,  \* whether the ctx each call was given has been cancelled
    on,         \* the Service instance each call is invoked on
    job,        \* a function under study, its arguments and its results
    processor,  \* the *HybridWebPProcessor encodeWithCWebP is called on
    tmp,        \* the paths that exist under os.TempDir()
    enc,        \* position and locals of each encodeWithCWebP call
    crawlerState, \* rows of crawler_state: [key, value]
    tw,         \* position and locals of crawlTwitterAuthorUser, and what the
                \* current crawl has ingested
    dl,         \* position and locals of downloadWithHeadersRetry, and the
                \* attempts it has made
    pixiv       \* position and locals of crawlPixivOnce, and the crawls made

encVars == <<processor, tmp, enc>>

appVars == <<crawlerState, tw, dl, pixiv>>

vars == <<records, blobs, blocklist, mu, pc, in, prepared, lock, seq, res, log, before,
          cancelled, on, job, encVars, appVars>>

----------------------------------------------------------------------------
\* strings.TrimSpace

RECURSIVE TrimLeft(_)
TrimLeft(s) == IF s # <<>> /\ Head(s) = " " THEN TrimLeft(Tail(s)) ELSE s

RECURSIVE TrimRight(_)
TrimRight(s) ==
    IF s # <<>> /\ s[Len(s)] = " " THEN TrimRight(SubSeq(s, 1, Len(s) - 1)) ELSE s

TrimSpace(s) == TrimRight(TrimLeft(s))

----------------------------------------------------------------------------
\* Image bytes.  fmt is the container format image.DecodeConfig detects
\* ("" for bytes it cannot decode), w and h the declared dimensions, px the
\* picture, len the number of bytes.

Bytes(fmt, w, h, px, len) == [fmt |-> fmt, w |-> w, h |-> h, px |-> px, len |-> len]

EmptyData  == Bytes("", 0, 0, "", 0)
Garbage    == Bytes("", 0, 0, "x", 3)
WebpHp     == Bytes("webp", 1, 1, "p", 2)
WebpHs     == Bytes("webp", 2, 1, "s", 2)
WebpHr     == Bytes("webp", 2, 1, "r", 2)
WebpVq     == Bytes("webp", 1, 2, "q", 2)
PngHp      == Bytes("png", 1, 1, "p", 4)

StoreInput(sourceKey, id, raw) == [SourceKey |-> sourceKey, ID |-> id, RawData |-> raw]

\* The StoreInput values the callers pass: blank and padded source keys, a
\* blocked key ("c"), empty and undecodable bytes, equal and different
\* pictures under equal and different source keys, in both orientations.
Inputs ==
    { StoreInput(<<" ">>, <<>>, WebpHp),
      StoreInput(<<"a">>, <<>>, EmptyData),
      StoreInput(<<"a">>, <<>>, Garbage),
      StoreInput(<<"c">>, <<>>, EmptyData),
      StoreInput(<<"c">>, <<>>, Garbage),
      StoreInput(<<"c", " ">>, <<>>, WebpHr),
      StoreInput(<<" ", "b">>, <<>>, WebpHr),
      StoreInput(<<"a">>, <<>>, WebpHp),
      StoreInput(<<"a">>, <<>>, PngHp),
      StoreInput(<<"a">>, <<" ", "x">>, WebpVq),
      StoreInput(<<" ", "b">>, <<>>, WebpHp),
      StoreInput(<<" ", "b">>, <<>>, WebpHs) }

\* sha256.Sum256 + hex.EncodeToString: lowercase hex, one digest per byte string.
SHA256(b) == <<b.fmt, b.w, b.h, b.px, b.len>>
NoHash == <<>>

\* The picture cwebp writes for a decoded image: same dimensions, WebP container.
CWebPOutput(b) == Bytes("webp", b.w, b.h, b.px, 2)

NoPrepared ==
    [ok |-> FALSE, WebPBytes |-> EmptyData, SHA256 |-> NoHash, Width |-> 0, Height |-> 0,
     Orientation |-> "", Bytes |-> 0, ContentType |-> "", OriginalMIME |-> ""]

\* The result of Prepare when it returns bytes b that image.DecodeConfig
\* reads as w x h, for an input of MIME type mime (lines 143-155).
Prepared(b, w, h, orientation, mime) ==
    [ok |-> TRUE, WebPBytes |-> b, SHA256 |-> SHA256(b), Width |-> w, Height |-> h,
     Orientation |-> orientation, Bytes |-> b.len, ContentType |-> "image/webp",
     OriginalMIME |-> mime]

\* Lines 114-117 and 136-140: v when the height exceeds the width, else h.
OrientationOf(w, h) == IF h > w THEN "v" ELSE "h"

\* Mutant: a WebP input is re-encoded like any other (PassThroughWebP false).
PrepareWith_NoPassThrough(data, encOK, out) ==
    IF data.len = 0 \/ data.fmt = "" \/ data.w <= 0 \/ data.h <= 0 THEN NoPrepared
    ELSE IF ~encOK \/ out.len = 0 \/ out.fmt = "" THEN NoPrepared
    ELSE Prepared(out, out.w, out.h, OrientationOf(out.w, out.h), "image/" \o data.fmt)

\* Mutant: after a re-encode the dimensions are refreshed but the orientation
\* is still the one of the source.
PrepareWith_SourceOrientation(data, encOK, out) ==
    IF data.len = 0 \/ data.fmt = "" \/ data.w <= 0 \/ data.h <= 0 THEN NoPrepared
    ELSE IF data.fmt = "webp"
         THEN Prepared(data, data.w, data.h, OrientationOf(data.w, data.h), "image/webp")
    ELSE IF ~encOK \/ out.len = 0 \/ out.fmt = "" THEN NoPrepared
    ELSE Prepared(out, out.w, out.h, OrientationOf(data.w, data.h), "image/" \o data.fmt)

\* Mutant: the fingerprint and the byte count are those of the input.
PrepareWith_HashesInput(data, encOK, out) ==
    IF data.len = 0 \/ data.fmt = "" \/ data.w <= 0 \/ data.h <= 0 THEN NoPrepared
    ELSE IF data.fmt = "webp"
         THEN Prepared(data, data.w, data.h, OrientationOf(data.w, data.h), "image/webp")
    ELSE IF ~encOK \/ out.len = 0 \/ out.fmt = "" THEN NoPrepared
    ELSE [Prepared(out, out.w, out.h, OrientationOf(out.w, out.h), "image/" \o data.fmt)
             EXCEPT !.SHA256 = SHA256(data), !.Bytes = data.len]

\* HybridWebPProcessor.Prepare with PassThroughWebP = true.  encOK says
\* whether image.Decode and the cwebp subprocess succeed when they are run,
\* out is the file cwebp writes.
PrepareWith(data, encOK, out) ==
    IF data.len = 0 THEN NoPrepared
    ELSE IF data.fmt = "" THEN NoPrepared
    ELSE IF data.w <= 0 \/ data.h <= 0 THEN NoPrepared
    ELSE IF data.fmt = "webp"
         THEN Prepared(data, data.w, data.h, OrientationOf(data.w, data.h), "image/webp")
    ELSE IF ~encOK THEN NoPrepared
    ELSE IF out.len = 0 THEN NoPrepared
    ELSE IF out.fmt = "" THEN NoPrepared
    ELSE Prepared(out, out.w, out.h, OrientationOf(out.w, out.h), "image/" \o data.fmt)

\* Prepare as StoreToGallery's calls see it: cwebp keeps the dimensions.
Prepare(data, encOK) == PrepareWith(data, encOK, CWebPOutput(data))

----------------------------------------------------------------------------
\* The D1 client

normalizeOrientation(v) ==
    IF v \in {"h", "H"} THEN "h" ELSE IF v \in {"v", "V"} THEN "v" ELSE ""

\* Mutant: the blocklist query finds no entry.
IsBlockedQuery_Never(bl, key) == FALSE

IsBlockedQuery(bl, key) ==
    IF TrimSpace(key) = <<>> THEN FALSE ELSE TrimSpace(key) \in bl

\* Mutant: the source-key check finds no record.
ExistsGallerySourceKey_Never(recs, sourceKey) == FALSE

ExistsGallerySourceKey(recs, sourceKey) ==
    IF TrimSpace(sourceKey) = <<>> THEN FALSE
    ELSE \E r \in recs : r.source_key = TrimSpace(sourceKey)

\* Mutant: the fingerprint check finds no record.
ExistsGallerySHA256_Never(recs, sha) == FALSE

ExistsGallerySHA256(recs, sha) ==
    IF sha = NoHash THEN FALSE ELSE \E r \in recs : r.sha256 = sha

SetMax(S) == CHOOSE x \in S : \A y \in S : y <= x

\* Mutant: the query has no WHERE orientation = ? clause.
NextGallerySeq_AnyOrientation(recs, orientation) ==
    LET s == {r.seq : r \in recs} IN IF s = {} THEN 1 ELSE SetMax(s) + 1

\* Mutant: the query counts the rows instead of taking the maximum.
NextGallerySeq_Count(recs, orientation) ==
    Cardinality({x \in recs : x.orientation = normalizeOrientation(orientation)}) + 1

\* SELECT COALESCE(MAX(seq), 0) + 1 ... WHERE orientation = ?
NextGallerySeq(recs, orientation) ==
    LET s == {r.seq : r \in {x \in recs : x.orientation = normalizeOrientation(orientation)}}
    IN  IF s = {} THEN 1 ELSE SetMax(s) + 1

\* The %d verb of fmt.Sprintf: decimal digits, most significant first, no
\* padding, a minus sign for a negative number.
DecimalDigits == <<"0", "1", "2", "3", "4", "5", "6", "7", "8", "9">>
RECURSIVE FormatInt(_)
FormatInt(n) ==
    IF n < 0 THEN "-" \o FormatInt(-n)
    ELSE IF n < 10 THEN DecimalDigits[n + 1]
    ELSE FormatInt(n \div 10) \o DecimalDigits[(n % 10) + 1]

\* Mutant: the key does not depend on seq.
R2Key_NoSeq(orientation, n) == "ri/" \o orientation \o "/0.webp"

\* Mutant: the key keeps only the last decimal digit of seq.
R2Key_LastDigit(orientation, n) ==
    "ri/" \o orientation \o "/" \o DecimalDigits[(n % 10) + 1] \o ".webp"

\* fmt.Sprintf("ri/%s/%d.webp", orientation, seq)
R2Key(orientation, n) == "ri/" \o orientation \o "/" \o FormatInt(n) \o ".webp"

\* The number of characters of the fingerprint pickID keeps (line 207).
ShaPrefix == 24

\* Mutant: the source key is preferred to the caller's id.
pickID_SourceKeyFirst(preferred, sourceKey, sha) ==
    IF TrimSpace(sourceKey) # <<>> THEN TrimSpace(sourceKey)
    ELSE IF TrimSpace(preferred) # <<>> THEN TrimSpace(preferred)
    ELSE IF Len(TrimSpace(sha)) > ShaPrefix
         THEN <<"sha256_">> \o SubSeq(TrimSpace(sha), 1, ShaPrefix)
    ELSE IF TrimSpace(sha) # <<>> THEN <<"sha256_">> \o TrimSpace(sha)
    ELSE <<"img_", "now">>

pickID(preferred, sourceKey, sha) ==
    IF TrimSpace(preferred) # <<>> THEN TrimSpace(preferred)
    ELSE IF TrimSpace(sourceKey) # <<>> THEN TrimSpace(sourceKey)
    ELSE IF Len(TrimSpace(sha)) > ShaPrefix
         THEN <<"sha256_">> \o SubSeq(TrimSpace(sha), 1, ShaPrefix)
    ELSE IF TrimSpace(sha) # <<>> THEN <<"sha256_">> \o TrimSpace(sha)
    ELSE <<"img_", "now">>

\* The row InsertGalleryImage sends, after its normalisation of the fields.
InsertRow(img) ==
    [img EXCEPT !.source_key = TrimSpace(img.source_key),
                !.orientation = normalizeOrientation(img.orientation),
                !.id = IF img.id = <<>> THEN TrimSpace(img.source_key) ELSE img.id]

\* InsertGalleryImage's own validation (lines 248-262).
InsertValid(img) ==
    /\ InsertRow(img).orientation # ""
    /\ InsertRow(img).source_key # <<>>
    /\ img.sha256 # NoHash
    /\ img.seq >= 1
    /\ img.r2_key # ""

\* Mutant: the table has no UNIQUE constraint on source_key.
InsertAccepted_NoSourceKey(recs, row) ==
    \A r \in recs :
        /\ r.id # row.id
        /\ r.sha256 # row.sha256
        /\ r.r2_key # row.r2_key
        /\ ~(r.orientation = row.orientation /\ r.seq = row.seq)

\* The constraints of gallery_images: id PRIMARY KEY, source_key UNIQUE,
\* sha256 UNIQUE, r2_key UNIQUE and the unique index on (orientation, seq).
InsertAccepted(recs, row) ==
    \A r \in recs :
        /\ r.id # row.id
        /\ r.source_key # row.source_key
        /\ r.sha256 # row.sha256
        /\ r.r2_key # row.r2_key
        /\ ~(r.orientation = row.orientation /\ r.seq = row.seq)

\* CountGalleryActive
CountGalleryActive(recs) ==
    [H |-> Cardinality({r \in recs : r.status = "active" /\ r.orientation = "h"}),
     V |-> Cardinality({r \in recs : r.status = "active" /\ r.orientation = "v"})]

NoCounts == [H |-> 0, V |-> 0]

----------------------------------------------------------------------------
\* The R2 client

PutObjectEffect(bs, key, data) == {b \in bs : b.key # key} \cup {[key |-> key, data |-> data]}

\* Mutant: the delete removes nothing.
DeleteObjectEffect_Noop(bs, key) == bs

DeleteObjectEffect(bs, key) == IF key = "" THEN bs ELSE {b \in bs : b.key # key}

----------------------------------------------------------------------------
\* Service

\* The Service values that share the stores, and the muH and muV fields of
\* each.  The calls of Spec are all made on Service 1.
Services == {1, 2}
ServiceMu == <<[muH |-> "muH", muV |-> "muV"], [muH |-> "muH2", muV |-> "muV2"]>>
Mutexes == {ServiceMu[s].muH : s \in Services} \cup {ServiceMu[s].muV : s \in Services}

\* Mutant: one mutex serves both orientations.
orientationLock_Single(s, orientation) == ServiceMu[s].muH

\* Mutant: the two mutexes are package-level variables shared by all Services.
orientationLock_Global(s, orientation) ==
    IF orientation \in {"v", "V"} THEN ServiceMu[1].muV ELSE ServiceMu[1].muH

\* Service.orientationLock
orientationLock(s, orientation) ==
    IF orientation \in {"v", "V"} THEN ServiceMu[s].muV ELSE ServiceMu[s].muH

\* Mutant: Lock never waits.
CanLock_Always(m) == TRUE

\* sync.Mutex.Lock returns only when the mutex is free.
CanLock(m) == ~mu[m]

NoImage ==
    [id |-> <<>>, source_key |-> <<>>, sha256 |-> NoHash, orientation |-> "",
     seq |-> 0, r2_key |-> "", width |-> 0, height |-> 0, bytes |-> 0,
     status |-> ""]

NoInput == StoreInput(<<>>, <<>>, EmptyData)

StoreResult(added, reason, image, counts, hash, err) ==
    [Added |-> added, SkipReason |-> reason, Image |-> image, Counts |-> counts,
     ContentHash |-> hash, err |-> err]

NoResult == StoreResult(FALSE, "", NoImage, NoCounts, NoHash, "")

\* Mutant: a skip never carries the fingerprint.
Skip_NoHash(reason, hash) == StoreResult(FALSE, reason, NoImage, NoCounts, NoHash, "")

Skip(reason, hash) == StoreResult(FALSE, reason, NoImage, NoCounts, hash, "")
Fail(err) == StoreResult(FALSE, "", NoImage, NoCounts, NoHash, err)

\* The record StoreToGallery builds at lines 148-165.
BuildImage(c) ==
    [id |-> pickID(in[c].ID, in[c].SourceKey, prepared[c].SHA256),
     source_key |-> in[c].SourceKey,
     sha256 |-> prepared[c].SHA256,
     orientation |-> prepared[c].Orientation,
     seq |-> seq[c],
     r2_key |-> R2Key(prepared[c].Orientation, seq[c]),
     width |-> prepared[c].Width,
     height |-> prepared[c].Height,
     bytes |-> prepared[c].Bytes,
     status |-> "active"]

\* The record and the object that exist before the first call.
PreImage ==
    [id |-> <<"c">>, source_key |-> <<"c">>, sha256 |-> SHA256(WebpHr),
     orientation |-> "h", seq |-> PreSeq, r2_key |-> R2Key("h", PreSeq),
     width |-> 2, height |-> 1, bytes |-> 2, status |-> "active"]

\* The encoder: HybridWebPProcessor.encodeWithCWebP

\* Number of encodeWithCWebP calls that may run at the same time.
MaxEnc == 2
Encoders == 1..MaxEnc

\* The names os.MkdirTemp may draw for "tyr-blog-img-webp-*".
DirNames == 1..MaxEnc

DefaultBinary == <<"c", "w", "e", "b", "p">>
DefaultQuality == 84
DefaultMethod == 4
MaxQuality == 100
MaxMethod == 6

Processor(bin, quality, method) ==
    [nil |-> FALSE, CWebPBinary |-> bin, Quality |-> quality, Method |-> method,
     PassThroughWebP |-> TRUE]

\* A nil *HybridWebPProcessor.
NilProcessor ==
    [nil |-> TRUE, CWebPBinary |-> <<>>, Quality |-> 0, Method |-> 0,
     PassThroughWebP |-> FALSE]

NewHybridWebPProcessor == Processor(DefaultBinary, DefaultQuality, DefaultMethod)

\* Lines 159, 162-165.
EncoderBinary(p) ==
    IF p.nil THEN DefaultBinary
    ELSE IF TrimSpace(p.CWebPBinary) # <<>> THEN TrimSpace(p.CWebPBinary)
    ELSE DefaultBinary

\* Mutant: a value out of range is replaced by the nearest bound.
EncoderQuality_Clamp(p) ==
    IF p.nil THEN DefaultQuality
    ELSE IF p.Quality < 0 THEN 0
    ELSE IF p.Quality > MaxQuality THEN MaxQuality
    ELSE p.Quality

\* Lines 160, 162, 166-168.
EncoderQuality(p) ==
    IF p.nil THEN DefaultQuality
    ELSE IF p.Quality >= 0 /\ p.Quality <= MaxQuality THEN p.Quality
    ELSE DefaultQuality

\* Lines 161, 162, 169-171.
EncoderMethod(p) ==
    IF p.nil THEN DefaultMethod
    ELSE IF p.Method >= 0 /\ p.Method <= MaxMethod THEN p.Method
    ELSE DefaultMethod

\* filepath.Join(tmpDir, name); the directory itself has the name "".
Path(dir, name) == [dir |-> dir, file |-> name]
inPath(dir) == Path(dir, "input.png")
outPath(dir) == Path(dir, "output.webp")

\* The argument list of lines 195-202; strconv.Itoa renders the numbers.
EncoderArgs(p, dir) ==
    <<"-quiet", "-mt", "-q", FormatInt(EncoderQuality(p)), "-m", FormatInt(EncoderMethod(p)),
      inPath(dir), "-o", outPath(dir)>>

\* Mutant: os.Remove, which removes only a directory that is empty.
RemoveAll_Remove(paths, dir) ==
    IF \E f \in paths : f.dir = dir /\ f.file # "" THEN paths
    ELSE {f \in paths : f.dir # dir}

\* os.RemoveAll: the directory and everything below it.
RemoveAll(paths, dir) == {f \in paths : f.dir # dir}

\* The locals of an encodeWithCWebP call that has not started.
NoEncode ==
    [pc |-> "idle", bin |-> <<>>, args |-> <<>>, tmpDir |-> 0, outLen |-> 0,
     data |-> 0, err |-> ""]

\* No encodeWithCWebP call is in progress on the processor main.go builds.
EncInit ==
    /\ processor = NewHybridWebPProcessor
    /\ tmp = {}
    /\ enc = [e \in Encoders |-> NoEncode]

\* The crawler state table and crawlTwitterAuthorUser

\* strconv.FormatInt(n, 10), as a sequence of characters.
RECURSIVE FormatInt64(_)
FormatInt64(n) ==
    IF n < 0 THEN <<"-">> \o FormatInt64(0 - n)
    ELSE IF n < 10 THEN <<DecimalDigits[n + 1]>>
    ELSE FormatInt64(n \div 10) \o <<DecimalDigits[(n % 10) + 1]>>

IsDigit(ch) == \E i \in 1..10 : DecimalDigits[i] = ch
DigitValue(ch) == (CHOOSE i \in 1..10 : DecimalDigits[i] = ch) - 1

\* The number a sequence of decimal digits denotes.
RECURSIVE DigitsValue(_)
DigitsValue(s) ==
    IF s = <<>> THEN 0
    ELSE 10 * DigitsValue(SubSeq(s, 1, Len(s) - 1)) + DigitValue(s[Len(s)])

\* strconv.ParseInt(s, 10, 64): an optional sign and at least one digit,
\* nothing else; the number is 0 when there is an error.
ParseInt(s) ==
    LET signed == s # <<>> /\ s[1] \in {"+", "-"}
        body == IF signed THEN Tail(s) ELSE s
    IN  IF body = <<>> \/ \E i \in 1..Len(body) : ~IsDigit(body[i])
        THEN [n |-> 0, ok |-> FALSE]
        ELSE [n |-> IF signed /\ s[1] = "-" THEN 0 - DigitsValue(body) ELSE DigitsValue(body),
              ok |-> TRUE]

\* SELECT value FROM crawler_state WHERE key = ? LIMIT 1
GetCrawlerState(rows, key) ==
    IF \E r \in rows : r.key = key
    THEN [value |-> (CHOOSE r \in rows : r.key = key).value, ok |-> TRUE]
    ELSE [value |-> <<>>, ok |-> FALSE]

\* INSERT OR REPLACE INTO crawler_state (key, value, updated_at)
SetCrawlerState(rows, key, value) ==
    {r \in rows : r.key # key} \cup {[key |-> key, value |-> TrimSpace(value)]}

\* twitterAuthorStatePrefix + strings.ToLower(user), for the one author.
twitterStateKey == "twitter_author_last_u"

\* Number of crawls of the author, and the largest tweet id in its feed.
MaxCrawls == 2
MaxTweetID == 3

\* The link ids a feed may hold: tweet ids, an id that is not a number and
\* an id that is not positive.
LinkIDs == {FormatInt64(n) : n \in 0..MaxTweetID} \cup {<<"x">>}

\* The values of Cfg.TwitterAuthorFetchLimit.
FetchLimits == {0, 2}

\* The ids in ascending order: sort.Slice at line 210.
RECURSIVE SortedIDs(_)
SortedIDs(S) ==
    IF S = {} THEN <<>>
    ELSE LET m == CHOOSE x \in S : \A y \in S : x <= y
         IN  <<m>> \o SortedIDs(S \ {m})

\* Mutant: ids equal to the last id are kept.
Candidates_KeepsLast(links, lastID, limit) ==
    LET ids == {ParseInt(l).n : l \in {x \in links : ParseInt(x).ok}}
        kept == SortedIDs({n \in ids : n > 0 /\ ~(lastID > 0 /\ n < lastID)})
    IN  IF limit > 0 /\ Len(kept) > limit
        THEN SubSeq(kept, Len(kept) - limit + 1, Len(kept))
        ELSE kept

\* Lines 196-213: the links whose id is a positive number above lastID, in
\* ascending order, the highest `limit` of them when a limit is set.
Candidates(links, lastID, limit) ==
    LET ids == {ParseInt(l).n : l \in {x \in links : ParseInt(x).ok}}
        kept == SortedIDs({n \in ids : n > 0 /\ ~(lastID > 0 /\ n <= lastID)})
    IN  IF limit > 0 /\ Len(kept) > limit
        THEN SubSeq(kept, Len(kept) - limit + 1, Len(kept))
        ELSE kept

\* The locals of crawlTwitterAuthorUser before a crawl, the number of crawls
\* made, Cfg.TwitterAuthorFetchLimit and whether ctx has been cancelled.
NoCrawl ==
    [pc |-> "idle", lastID |-> 0, candidates |-> <<>>, i |-> 0, highestSuccessID |-> 0,
     succeeded |-> {}, failed |-> {}, err |-> "", crawls |-> 0, limit |-> 0,
     cancelled |-> FALSE]

\* The kinds of error downloadWithHeadersTimeout returns: the ctx was
\* cancelled, its deadline passed, a net.Error that is a timeout, an error
\* whose text contains "reset", and a status that is not 200.
DownloadErrors ==
    {"context canceled", "context deadline exceeded", "net timeout",
     "connection reset by peer", "download status 404"}

\* Mutant: every error is retried.
isRetryableDownloadErr_Always(err) == err # ""

\* Lines 67-83.
isRetryableDownloadErr(err) ==
    IF err = "" THEN FALSE
    ELSE IF err = "context canceled" THEN FALSE
    ELSE IF err = "context deadline exceeded" THEN TRUE
    ELSE IF err = "net timeout" THEN TRUE
    ELSE err = "connection reset by peer"

\* The locals of downloadWithHeadersRetry before the call, the attempts made,
\* whether ctx has been cancelled (and whether that happened during a backoff
\* wait), and the number of retries the caller asked for.
NoDownload ==
    [pc |-> "idle", retries |-> 0, timeout |-> 0, backoff |-> 0, attempts |-> 0, i |-> 0,
     lastErr |-> "", data |-> 0, err |-> "", wait |-> 0, history |-> <<>>,
     cancelled |-> FALSE, waitCancelled |-> FALSE, asked |-> 0]

\* const pixivBootstrapStateKey, and the value line 59 stores under it.
pixivBootstrapStateKey == "pixiv_bootstrap_done"
BootstrapDoneValue == <<"1">>

\* Largest number of bookmarks the listing reports.
MaxBookmarks == 3

\* The values of Cfg.PixivCrawlOrder, Cfg.PixivLimit, Cfg.PixivMaxPages,
\* Cfg.PixivBootstrapMaxPages and Cfg.PixivIncrementalMaxPages: the defaults
\* of config.go and one configured value each.
PixivOrders == {"desc", "asc"}
PixivLimits == {2, 40}
PixivMaxPagesValues == {0, 3}
PixivBootstrapMaxPagesValues == {0 - 1, 2}
PixivIncrementalMaxPagesValues == {0 - 1, 1, 2}

PixivCfgs ==
    [PixivCrawlOrder : PixivOrders,
     PixivLimit : PixivLimits,
     PixivMaxPages : PixivMaxPagesValues,
     PixivBootstrapMaxPages : PixivBootstrapMaxPagesValues,
     PixivIncrementalMaxPages : PixivIncrementalMaxPagesValues]

\* net_helpers.go lines 96-101.
maxInt(v, fallback) == IF v <= 0 THEN fallback ELSE v

\* Lines 66-77.
resolvePixivMaxPages(cfg, bootstrapDone) ==
    IF bootstrapDone
    THEN IF cfg.PixivIncrementalMaxPages >= 0 THEN cfg.PixivIncrementalMaxPages ELSE 2
    ELSE IF cfg.PixivBootstrapMaxPages >= 0 THEN cfg.PixivBootstrapMaxPages
         ELSE cfg.PixivMaxPages

\* Lines 137-142.
shouldStopPageLoop(page, offset, total, maxPages) ==
    IF maxPages > 0 /\ page >= maxPages THEN TRUE
    ELSE total > 0 /\ offset >= total

\* Client.FetchBookmarkIDs without error: the ids of the bookmarks from
\* offset on, at most limit of them; bookmark k has id k.
BookmarkIDs(offset, limit, total) ==
    LET last == IF offset + limit < total THEN offset + limit ELSE total
    IN  [k \in 1..(IF last > offset THEN last - offset ELSE 0) |-> offset + k]

\* allIDs in the order of the loop of lines 128-133.
Backwards(ids) == [k \in 1..Len(ids) |-> ids[Len(ids) + 1 - k]]

\* The locals of crawlPixivOnce and of crawlPixivDesc / crawlPixivAsc before a
\* crawl, the configuration, whether ctx has been cancelled, and one entry
\* of history for every crawl made.
NoPixiv ==
    [pc |-> "idle", cfg |-> [PixivCrawlOrder |-> "desc", PixivLimit |-> 40, PixivMaxPages |-> 0,
                            PixivBootstrapMaxPages |-> 0 - 1, PixivIncrementalMaxPages |-> 2],
     bootstrapDone |-> FALSE, maxPages |-> 0, offset |-> 0, page |-> 0, limit |-> 0,
     total |-> 0, ids |-> <<>>, allIDs |-> <<>>, err |-> "", crawls |-> 0,
     cancelled |-> FALSE, history |-> <<>>]

\* No crawl and no download has been made and crawler_state is empty.
AppInit ==
    /\ crawlerState = {}
    /\ tw = NoCrawl
    /\ dl = NoDownload
    /\ pixiv = NoPixiv

ServiceInit ==
    /\ records = {PreImage}
    /\ blobs = {[key |-> PreImage.r2_key, data |-> WebpHr]}
    /\ blocklist = {<<"c">>}
    /\ mu = [m \in Mutexes |-> FALSE]
    /\ pc = [c \in Calls |-> "idle"]
    /\ in = [c \in Calls |-> NoInput]
    /\ prepared = [c \in Calls |-> NoPrepared]
    /\ lock = [c \in Calls |-> ""]
    /\ seq = [c \in Calls |-> 0]
    /\ res = [c \in Calls |-> NoResult]
    /\ log = [c \in Calls |-> <<>>]
    /\ before = [c \in Calls |-> {}]
    /\ cancelled = [c \in Calls |-> FALSE]

\* No function is under study.
NoJob == [kind |-> "none"]

Init ==
    /\ ServiceInit
    /\ AppInit
    /\ EncInit
    /\ on = [c \in Calls |-> 1]
    /\ job = NoJob

\* Mutant: the call returns without unlocking its mutex.
Return_KeepsLock(c, result) ==
    /\ pc' = [pc EXCEPT ![c] = "done"]
    /\ res' = [res EXCEPT ![c] = result]
    /\ UNCHANGED <<mu, lock>>

\* return: the deferred lock.Unlock() runs when the call holds a mutex.
Return(c, result) ==
    /\ pc' = [pc EXCEPT ![c] = "done"]
    /\ res' = [res EXCEPT ![c] = result]
    /\ mu' = IF lock[c] = "" THEN mu ELSE [mu EXCEPT ![lock[c]] = FALSE]
    /\ lock' = [lock EXCEPT ![c] = ""]

Goto(c, label) ==
    /\ pc' = [pc EXCEPT ![c] = label]
    /\ UNCHANGED <<res, mu, lock>>

Logged(c, op, ok) == log' = [log EXCEPT ![c] = Append(log[c], [op |-> op, ok |-> ok])]

\* The ctx argument of a StoreToGallery call and context.Background().
CallerCtx(c) == <<"caller", c>>
Background == <<"background">>

\* ctx.Done() is closed: only a caller's context is ever cancelled.
CtxDone(x) == x[1] = "caller" /\ cancelled[x[2]]

\* The outcomes of a request made with context x (TRUE: answered without
\* error).  http.NewRequestWithContext, the S3 client and exec.CommandContext
\* fail a request whose context is done.
Answers(x) == IF CtxDone(x) THEN {FALSE} ELSE BOOLEAN

\* Mutant: the compensating delete is given the caller's context.
DeleteCtx_Caller(c) == CallerCtx(c)

\* Line 169: the compensating delete is given context.Background().
DeleteCtx(c) == Background

\* Mutant: the length of the raw data is not checked.
Validate_NoEmptyCheck(i) ==
    IF i.SourceKey = <<>> THEN "source_key is required" ELSE ""

\* Lines 71-76: the preconditions, checked on the trimmed input.
Validate(i) ==
    IF i.SourceKey = <<>> THEN "source_key is required"
    ELSE IF i.RawData.len = 0 THEN "raw image data is empty"
    ELSE ""

\* Lines 57-76: the call starts, trims its input and validates it.
StartFrom(c, inputs) ==
    /\ pc[c] = "idle"
    /\ \A d \in Calls : d < c => pc[d] # "idle"
    /\ \E i \in inputs :
        LET t == StoreInput(TrimSpace(i.SourceKey), TrimSpace(i.ID), i.RawData) IN
        /\ in' = [in EXCEPT ![c] = t]
        /\ IF Validate(t) # "" THEN Return(c, Fail(Validate(t))) ELSE Goto(c, "IsBlocked")
    /\ before' = [before EXCEPT ![c] = {d \in Calls : pc[d] = "done" /\ res[d].Added}]
    /\ UNCHANGED <<records, blobs, blocklist, prepared, seq, log, cancelled, on, job, encVars, appVars>>

Start(c) == StartFrom(c, Inputs)

\* Lines 78-85
IsBlocked(c) ==
    /\ pc[c] = "IsBlocked"
    /\ \E ok \in Answers(CallerCtx(c)) :
        /\ Logged(c, "IsBlocked", ok)
        /\ IF ~ok THEN Return(c, Fail("IsBlocked"))
           ELSE IF IsBlockedQuery(blocklist, in[c].SourceKey)
           THEN Return(c, Skip("blocked_source", NoHash))
           ELSE Goto(c, "ExistsSource")
    /\ UNCHANGED <<records, blobs, blocklist, in, prepared, seq, before, cancelled, on, job, encVars, appVars>>

\* Mutant: the pre-lock source check lets every call pass.
ExistsSource_NeverFinds(c) ==
    /\ pc[c] = "ExistsSource"
    /\ \E ok \in Answers(CallerCtx(c)) :
        /\ Logged(c, "ExistsGallerySourceKey", ok)
        /\ IF ~ok THEN Return(c, Fail("ExistsGallerySourceKey"))
           ELSE Goto(c, "Prepare")
    /\ UNCHANGED <<records, blobs, blocklist, in, prepared, seq, before, cancelled, on, job, encVars, appVars>>

\* Lines 87-94
ExistsSource(c) ==
    /\ pc[c] = "ExistsSource"
    /\ \E ok \in Answers(CallerCtx(c)) :
        /\ Logged(c, "ExistsGallerySourceKey", ok)
        /\ IF ~ok THEN Return(c, Fail("ExistsGallerySourceKey"))
           ELSE IF ExistsGallerySourceKey(records, in[c].SourceKey)
           THEN Return(c, Skip("duplicate_source", NoHash))
           ELSE Goto(c, "Prepare")
    /\ UNCHANGED <<records, blobs, blocklist, in, prepared, seq, before, cancelled, on, job, encVars, appVars>>

\* Mutant: the error of Prepare is dropped and the call goes on.
DoPrepare_IgnoresError(c) ==
    /\ pc[c] = "Prepare"
    /\ \E encOK \in Answers(CallerCtx(c)) :
        LET p == Prepare(in[c].RawData, encOK) IN
        /\ Logged(c, "Prepare", p.ok)
        /\ Goto(c, "ExistsHash")
        /\ prepared' = IF p.ok THEN [prepared EXCEPT ![c] = p] ELSE prepared
    /\ UNCHANGED <<records, blobs, blocklist, in, seq, before, cancelled, on, job, encVars, appVars>>

\* Lines 96-100
DoPrepare(c) ==
    /\ pc[c] = "Prepare"
    /\ \E encOK \in Answers(CallerCtx(c)) :
        LET p == Prepare(in[c].RawData, encOK) IN
        /\ Logged(c, "Prepare", p.ok)
        /\ IF ~p.ok
           THEN Return(c, Fail("Prepare")) /\ UNCHANGED prepared
           ELSE Goto(c, "ExistsHash") /\ prepared' = [prepared EXCEPT ![c] = p]
    /\ UNCHANGED <<records, blobs, blocklist, in, seq, before, cancelled, on, job, encVars, appVars>>

\* Mutant: an error of the hash check is taken as "no such record".
ExistsHash_IgnoresError(c) ==
    /\ pc[c] = "ExistsHash"
    /\ \E ok \in Answers(CallerCtx(c)) :
        /\ Logged(c, "ExistsGallerySHA256", ok)
        /\ IF ok /\ ExistsGallerySHA256(records, prepared[c].SHA256)
           THEN Return(c, Skip("duplicate_hash", prepared[c].SHA256))
           ELSE Goto(c, "Lock")
    /\ UNCHANGED <<records, blobs, blocklist, in, prepared, seq, before, cancelled, on, job, encVars, appVars>>

\* Lines 102-109
ExistsHash(c) ==
    /\ pc[c] = "ExistsHash"
    /\ \E ok \in Answers(CallerCtx(c)) :
        /\ Logged(c, "ExistsGallerySHA256", ok)
        /\ IF ~ok THEN Return(c, Fail("ExistsGallerySHA256"))
           ELSE IF ExistsGallerySHA256(records, prepared[c].SHA256)
           THEN Return(c, Skip("duplicate_hash", prepared[c].SHA256))
           ELSE Goto(c, "Lock")
    /\ UNCHANGED <<records, blobs, blocklist, in, prepared, seq, before, cancelled, on, job, encVars, appVars>>

\* Lines 111-114
Lock(c) ==
    /\ pc[c] = "Lock"
    /\ LET m == orientationLock(on[c], prepared[c].Orientation) IN
        /\ CanLock(m)
        /\ mu' = [mu EXCEPT ![m] = TRUE]
        /\ lock' = [lock EXCEPT ![c] = m]
    /\ pc' = [pc EXCEPT ![c] = "RecheckSource"]
    /\ UNCHANGED <<records, blobs, blocklist, in, prepared, seq, res, log, before, cancelled, on, job, encVars, appVars>>

\* Lines 116-123
RecheckSource(c) ==
    /\ pc[c] = "RecheckSource"
    /\ \E ok \in Answers(CallerCtx(c)) :
        /\ Logged(c, "ExistsGallerySourceKey", ok)
        /\ IF ~ok THEN Return(c, Fail("ExistsGallerySourceKey"))
           ELSE IF ExistsGallerySourceKey(records, in[c].SourceKey)
           THEN Return(c, Skip("duplicate_source_race", prepared[c].SHA256))
           ELSE Goto(c, "RecheckHash")
    /\ UNCHANGED <<records, blobs, blocklist, in, prepared, seq, before, cancelled, on, job, encVars, appVars>>

\* Lines 124-130
RecheckHash(c) ==
    /\ pc[c] = "RecheckHash"
    /\ \E ok \in Answers(CallerCtx(c)) :
        /\ Logged(c, "ExistsGallerySHA256", ok)
        /\ IF ~ok THEN Return(c, Fail("ExistsGallerySHA256"))
           ELSE IF ExistsGallerySHA256(records, prepared[c].SHA256)
           THEN Return(c, Skip("duplicate_hash_race", prepared[c].SHA256))
           ELSE Goto(c, "NextSeq")
    /\ UNCHANGED <<records, blobs, blocklist, in, prepared, seq, before, cancelled, on, job, encVars, appVars>>

\* Mutant: a failed allocation is tried once more.
NextSeq_RetriesOnce(c) ==
    /\ pc[c] = "NextSeq"
    /\ \E ok \in Answers(CallerCtx(c)) :
        /\ Logged(c, "NextGallerySeq", ok)
        /\ IF ~ok
           THEN /\ IF "NextGallerySeq" \in {log[c][i].op : i \in 1..Len(log[c])}
                   THEN Return(c, Fail("NextGallerySeq"))
                   ELSE Goto(c, "NextSeq")
                /\ UNCHANGED seq
           ELSE /\ seq' = [seq EXCEPT ![c] =
                            NextGallerySeq(records, prepared[c].Orientation)]
                /\ Goto(c, "PutObject")
    /\ UNCHANGED <<records, blobs, blocklist, in, prepared, before, cancelled, on, job, encVars, appVars>>

\* Lines 132-137
NextSeq(c) ==
    /\ pc[c] = "NextSeq"
    /\ \E ok \in Answers(CallerCtx(c)) :
        /\ Logged(c, "NextGallerySeq", ok)
        /\ IF ~ok THEN Return(c, Fail("NextGallerySeq")) /\ UNCHANGED seq
           ELSE /\ seq' = [seq EXCEPT ![c] =
                            NextGallerySeq(records, prepared[c].Orientation)]
                /\ Goto(c, "PutObject")
    /\ UNCHANGED <<records, blobs, blocklist, in, prepared, before, cancelled, on, job, encVars, appVars>>

\* Mutant: the upload error is dropped and the call goes on to the insert.
UploadFailed_GoesOn(c) == Goto(c, "InsertGalleryImage") /\ UNCHANGED blobs

\* Lines 140-142: a failed upload ends the call with the wrapped error.
UploadFailed(c) == Return(c, Fail("upload r2")) /\ UNCHANGED blobs

\* Mutant: the source_key is looked up once more after the upload, and the
\* call skips when a record has appeared.
PutObject_RechecksAfterUpload(c) ==
    /\ pc[c] = "PutObject"
    /\ \E ok \in Answers(CallerCtx(c)) :
        /\ Logged(c, "PutObject", ok)
        /\ IF ~ok
           THEN UploadFailed(c)
           ELSE /\ blobs' = PutObjectEffect(blobs, R2Key(prepared[c].Orientation, seq[c]),
                                            prepared[c].WebPBytes)
                /\ IF ExistsGallerySourceKey(records, in[c].SourceKey)
                   THEN Return(c, Skip("duplicate_source_race", prepared[c].SHA256))
                   ELSE Goto(c, "InsertGalleryImage")
    /\ UNCHANGED <<records, blocklist, in, prepared, seq, before, cancelled, on, job, encVars, appVars>>

\* Lines 139-142
PutObject(c) ==
    /\ pc[c] = "PutObject"
    /\ \E ok \in Answers(CallerCtx(c)) :
        /\ Logged(c, "PutObject", ok)
        /\ IF ~ok
           THEN UploadFailed(c)
           ELSE /\ blobs' = PutObjectEffect(blobs, R2Key(prepared[c].Orientation, seq[c]),
                                            prepared[c].WebPBytes)
                /\ Goto(c, "InsertGalleryImage")
    /\ UNCHANGED <<records, blocklist, in, prepared, seq, before, cancelled, on, job, encVars, appVars>>

\* Mutant: the statement is INSERT OR REPLACE, so a row that conflicts with
\* existing rows replaces them.
InsertGalleryImage_OrReplace(c) ==
    /\ pc[c] = "InsertGalleryImage"
    /\ \E ok \in Answers(CallerCtx(c)) :
        LET img == BuildImage(c)
            row == InsertRow(img)
        IN
        /\ Logged(c, "InsertGalleryImage", ok /\ InsertValid(img))
        /\ IF ok /\ InsertValid(img)
           THEN /\ records' = {r \in records : InsertAccepted({r}, row)} \cup {row}
                /\ pc' = [pc EXCEPT ![c] = "CountGalleryActive"]
                /\ UNCHANGED res
           ELSE /\ pc' = [pc EXCEPT ![c] = "DeleteObject"]
                /\ res' = [res EXCEPT ![c] = Fail("insert gallery image: d1 error")]
                /\ UNCHANGED records
    /\ UNCHANGED <<blobs, blocklist, in, prepared, seq, mu, lock, before, cancelled, on, job, encVars, appVars>>

\* Lines 144-168: the record is built and inserted.  The insert fails when
\* the request fails (d1 error) or a constraint of the table rejects the row;
\* the call then goes on to the compensating delete with that error.
InsertGalleryImage(c) ==
    /\ pc[c] = "InsertGalleryImage"
    /\ \E ok \in Answers(CallerCtx(c)) :
        LET img == BuildImage(c)
            accepted == InsertValid(img) /\ InsertAccepted(records, InsertRow(img))
        IN
        /\ Logged(c, "InsertGalleryImage", ok /\ accepted)
        /\ IF ok /\ accepted
           THEN /\ records' = records \cup {InsertRow(img)}
                /\ pc' = [pc EXCEPT ![c] = "CountGalleryActive"]
                /\ UNCHANGED res
           ELSE /\ pc' = [pc EXCEPT ![c] = "DeleteObject"]
                /\ res' = [res EXCEPT ![c] =
                            Fail(IF ok THEN "insert gallery image: constraint"
                                 ELSE IF CtxDone(CallerCtx(c))
                                 THEN "insert gallery image: context canceled"
                                 ELSE "insert gallery image: d1 error")]
                /\ UNCHANGED records
    /\ UNCHANGED <<blobs, blocklist, in, prepared, seq, mu, lock, before, cancelled, on, job, encVars, appVars>>

\* Lines 169-170: best-effort delete, then the insertion error is returned.
DeleteObject(c) ==
    /\ pc[c] = "DeleteObject"
    /\ \E ok \in Answers(DeleteCtx(c)) :
        /\ Logged(c, "DeleteObject", ok)
        /\ blobs' = IF ok
                    THEN DeleteObjectEffect(blobs, R2Key(prepared[c].Orientation, seq[c]))
                    ELSE blobs
    /\ Return(c, res[c])
    /\ UNCHANGED <<records, blocklist, in, prepared, seq, before, cancelled, on, job, encVars, appVars>>

\* Mutant: a failed count query fails the call.
CountResult_ErrorOnFailure(c, ok) ==
    IF ok
    THEN StoreResult(TRUE, "", BuildImage(c), CountGalleryActive(records),
                     prepared[c].SHA256, "")
    ELSE Fail("CountGalleryActive")

\* Lines 174-187: the result of a call whose record was inserted; a failed
\* count query leaves Counts at its zero value and the error nil.
CountResult(c, ok) ==
    StoreResult(TRUE, "", BuildImage(c),
                IF ok THEN CountGalleryActive(records) ELSE NoCounts,
                prepared[c].SHA256, "")

\* Lines 173-187
CountActive(c) ==
    /\ pc[c] = "CountGalleryActive"
    /\ \E ok \in Answers(CallerCtx(c)) :
        /\ Logged(c, "CountGalleryActive", ok)
        /\ Return(c, CountResult(c, ok))
    /\ UNCHANGED <<records, blobs, blocklist, in, prepared, seq, before, cancelled, on, job, encVars, appVars>>

Next ==
    \E c \in Calls :
        \/ Start(c)
        \/ IsBlocked(c)
        \/ ExistsSource(c)
        \/ DoPrepare(c)
        \/ ExistsHash(c)
        \/ Lock(c)
        \/ RecheckSource(c)
        \/ RecheckHash(c)
        \/ NextSeq(c)
        \/ PutObject(c)
        \/ InsertGalleryImage(c)
        \/ DeleteObject(c)
        \/ CountActive(c)

Spec == Init /\ [][Next]_vars

----------------------------------------------------------------------------
\* Cancellation and a silent blob store

\* The inputs of the calls whose context may be cancelled: one source key
\* with a picture of each orientation and one that needs the encoder.
CtxInputs ==
    { StoreInput(<<"a">>, <<>>, WebpHp),
      StoreInput(<<"a">>, <<" ", "x">>, WebpVq),
      StoreInput(<<"a">>, <<>>, PngHp) }

StartCtx(c) == StartFrom(c, CtxInputs)

\* The caller cancels the ctx it passed to StoreToGallery (or its deadline
\* passes) while the call is running.
Cancel(c) ==
    /\ pc[c] \notin {"idle", "done"}
    /\ ~cancelled[c]
    /\ cancelled' = [cancelled EXCEPT ![c] = TRUE]
    /\ UNCHANGED <<records, blobs, blocklist, mu, pc, in, prepared, lock, seq, res, log,
                   before, on, job, encVars, appVars>>

\* Line 169 against a blob store that never answers: R2Client.DeleteObject
\* returns only when the request is answered or its context is done, and the
\* context of the compensating delete has neither a deadline nor a cancel
\* function, so the call waits with its mutex held.
DeleteHangs(c) ==
    /\ pc[c] = "DeleteObject"
    /\ ~CtxDone(DeleteCtx(c))
    /\ pc' = [pc EXCEPT ![c] = "DeleteObjectWait"]
    /\ UNCHANGED <<records, blobs, blocklist, mu, in, prepared, lock, seq, res, log,
                   before, cancelled, on, job, encVars, appVars>>

\* The steps of call c that the scheduler runs.
Run(c) ==
    \/ IsBlocked(c)
    \/ ExistsSource(c)
    \/ DoPrepare(c)
    \/ ExistsHash(c)
    \/ Lock(c)
    \/ RecheckSource(c)
    \/ RecheckHash(c)
    \/ NextSeq(c)
    \/ PutObject(c)
    \/ InsertGalleryImage(c)
    \/ DeleteObject(c)
    \/ CountActive(c)

NextCtx ==
    \E c \in Calls :
        \/ StartCtx(c)
        \/ Run(c)
        \/ Cancel(c)
        \/ DeleteHangs(c)

\* Every goroutine that can take a step eventually takes one; the caller's
\* cancellation and the silence of the blob store are left to the environment.
SpecCtx == Init /\ [][NextCtx]_vars /\ \A c \in Calls : WF_vars(Run(c))

\* Calls against stores that answer every request, each goroutine that can
\* take a step eventually taking one. The inputs are two pictures of the
\* same orientation under different source keys, so that the calls meet at
\* the same mutex.
FairInputs ==
    { StoreInput(<<"a">>, <<>>, WebpHp),
      StoreInput(<<" ", "b">>, <<>>, WebpHs) }

StartFair(c) == StartFrom(c, FairInputs)

NextFair ==
    \E c \in Calls :
        \/ StartFair(c)
        \/ Run(c)

SpecFair == Init /\ [][NextFair]_vars /\ \A c \in Calls : WF_vars(Run(c))

----------------------------------------------------------------------------
\* Two Service instances on the same stores

\* The inputs of the calls made on two instances: two pictures of
\* orientation h under different source keys, and one of orientation v.
MultiInputs ==
    { StoreInput(<<"a">>, <<>>, WebpHp),
      StoreInput(<<" ", "b">>, <<>>, WebpHs),
      StoreInput(<<"a">>, <<" ", "x">>, WebpVq) }

StartMulti(c) == StartFrom(c, MultiInputs)

\* The calls are made in turn on Service 1 and Service 2.
InitMulti ==
    /\ ServiceInit
    /\ AppInit
    /\ EncInit
    /\ on = [c \in Calls |-> IF c % 2 = 1 THEN 1 ELSE 2]
    /\ job = NoJob

NextMulti ==
    \E c \in Calls :
        \/ StartMulti(c)
        \/ Run(c)

SpecMulti == InitMulti /\ [][NextMulti]_vars

----------------------------------------------------------------------------
\* The processor and pickID on their own

\* Largest width and height of the pictures given to Prepare.
MaxDim == 2

\* The byte strings given to Prepare: empty, undecodable, and pictures of
\* every size in the three containers, sizes of zero included.
PrepareData ==
    {EmptyData, Garbage} \cup
    {Bytes(f, w, h, "p", 3) : f \in {"webp", "png", "gif"}, w \in 0..MaxDim, h \in 0..MaxDim}

\* The files cwebp may leave behind: a WebP picture of any positive size (the
\* decoded frame need not have the size DecodeConfig reports for the
\* source), an empty file, or bytes that do not decode.
EncoderOutputs ==
    {EmptyData, Garbage} \cup
    {Bytes("webp", w, h, "e", 2) : w \in 1..MaxDim, h \in 1..MaxDim}

PrepareJobs ==
    {[kind |-> "Prepare", data |-> d, encOK |-> e, out |-> o, step |-> "new",
      first |-> NoPrepared, second |-> NoPrepared] :
        d \in PrepareData, e \in BOOLEAN, o \in EncoderOutputs}

\* A lowercase hex string of n characters.
HexDigits == <<"0", "1", "2", "3", "4", "5", "6", "7", "8", "9", "a", "b", "c", "d", "e", "f">>
Hex(n) == [i \in 1..n |-> HexDigits[(i % 16) + 1]]

\* The arguments given to pickID: blank, padded and plain ids and source
\* keys; fingerprints that are blank, shorter than, as long as and longer
\* than the prefix pickID keeps.
PickIDJobs ==
    {[kind |-> "pickID", preferred |-> p, sourceKey |-> k, sha |-> h, step |-> "new",
      id |-> <<>>] :
        p \in {<<>>, <<" ">>, <<" ", "x">>, <<"x", " ">>},
        k \in {<<>>, <<" ">>, <<"a">>, <<" ", "b">>},
        h \in {<<>>, <<" ">>, Hex(3), Hex(ShaPrefix), <<" ">> \o Hex(ShaPrefix),
               Hex(ShaPrefix + 1), Hex(64)}}

\* How far beyond the valid ranges the configured quality and method go.
ConfigSlack == 3

\* The processors whose argument list is computed: nil, and every quality
\* and method from below the valid range to above it.
EncoderArgsJobs ==
    {[kind |-> "EncoderArgs", p |-> x, step |-> "new", args |-> <<>>] :
        x \in {NilProcessor} \cup
              {Processor(DefaultBinary, q, m) :
                  q \in (0 - ConfigSlack)..(MaxQuality + ConfigSlack),
                  m \in (0 - ConfigSlack)..(MaxMethod + ConfigSlack)}}

InitPure ==
    /\ ServiceInit
    /\ AppInit
    /\ EncInit
    /\ on = [c \in Calls |-> 1]
    /\ job \in PrepareJobs \cup PickIDJobs \cup EncoderArgsJobs

\* Prepare is applied to the bytes.
PrepareOnce ==
    /\ job.kind = "Prepare"
    /\ job.step = "new"
    /\ job' = [job EXCEPT !.step = "once",
                          !.first = PrepareWith(job.data, job.encOK, job.out)]
    /\ UNCHANGED <<records, blobs, blocklist, mu, pc, in, prepared, lock, seq, res, log,
                   before, cancelled, on, encVars, appVars>>

\* Prepare is applied to the bytes it returned.
PrepareTwice ==
    /\ job.kind = "Prepare"
    /\ job.step = "once"
    /\ job.first.ok
    /\ \E e \in BOOLEAN, o \in EncoderOutputs :
          job' = [job EXCEPT !.step = "twice",
                             !.second = PrepareWith(job.first.WebPBytes, e, o)]
    /\ UNCHANGED <<records, blobs, blocklist, mu, pc, in, prepared, lock, seq, res, log,
                   before, cancelled, on, encVars, appVars>>

\* pickID is applied to its arguments.
PickID ==
    /\ job.kind = "pickID"
    /\ job.step = "new"
    /\ job' = [job EXCEPT !.step = "once",
                          !.id = pickID(job.preferred, job.sourceKey, job.sha)]
    /\ UNCHANGED <<records, blobs, blocklist, mu, pc, in, prepared, lock, seq, res, log,
                   before, cancelled, on, encVars, appVars>>

\* The argument list is built for the processor.
BuildArgs ==
    /\ job.kind = "EncoderArgs"
    /\ job.step = "new"
    /\ job' = [job EXCEPT !.step = "once", !.args = EncoderArgs(job.p, 1)]
    /\ UNCHANGED <<records, blobs, blocklist, mu, pc, in, prepared, lock, seq, res, log,
                   before, cancelled, on, encVars, appVars>>

NextPure ==
    \/ PrepareOnce
    \/ PrepareTwice
    \/ PickID
    \/ BuildArgs

SpecPure == InitPure /\ [][NextPure]_vars

----------------------------------------------------------------------------
\* Concurrent encodeWithCWebP calls on one processor

svcVars == <<records, blobs, blocklist, mu, pc, in, prepared, lock, seq, res, log, before,
             cancelled, on>>

\* The processors encodeWithCWebP is called on: the one main.go builds, nil,
\* and one whose fields are blank and out of range.
Processors ==
    {NewHybridWebPProcessor, NilProcessor, Processor(<<" ">>, 0 - 1, MaxMethod + 1)}

InitEnc ==
    /\ ServiceInit
    /\ AppInit
    /\ on = [c \in Calls |-> 1]
    /\ job = NoJob
    /\ processor \in Processors
    /\ tmp = {}
    /\ enc = [e \in Encoders |-> NoEncode]

\* return nil, err after line 178: the deferred os.RemoveAll is pending.
EncFail(e, err) == enc' = [enc EXCEPT ![e].pc = "defer", ![e].err = err]

\* Lines 159-172: the call starts and fixes binary, quality and method.
EncBegin(e) ==
    /\ enc[e].pc \in {"idle", "returned"}
    /\ enc' = [enc EXCEPT ![e] = [NoEncode EXCEPT !.pc = "MkdirTemp",
                                                  !.bin = EncoderBinary(processor)]]
    /\ UNCHANGED <<svcVars, job, processor, tmp, appVars>>

\* Lines 174-178: os.MkdirTemp makes a directory whose name did not exist, or
\* fails; after a failure there is nothing to remove.
MkdirTemp(e) ==
    /\ enc[e].pc = "MkdirTemp"
    /\ \/ /\ enc' = [enc EXCEPT ![e].pc = "returned", ![e].err = "mktemp dir"]
          /\ UNCHANGED tmp
       \/ \E d \in DirNames :
             /\ Path(d, "") \notin tmp
             /\ tmp' = tmp \cup {Path(d, "")}
             /\ enc' = [enc EXCEPT ![e].pc = "Create", ![e].tmpDir = d]
    /\ UNCHANGED <<svcVars, job, processor, appVars>>

\* Lines 183-186: os.Create(inPath).
Create(e) ==
    /\ enc[e].pc = "Create"
    /\ \/ /\ tmp' = tmp \cup {inPath(enc[e].tmpDir)}
          /\ enc' = [enc EXCEPT ![e].pc = "png.Encode"]
       \/ /\ EncFail(e, "create temp png")
          /\ UNCHANGED tmp
    /\ UNCHANGED <<svcVars, job, processor, appVars>>

\* Lines 187-190: png.Encode(inFile, img).
PngEncode(e) ==
    /\ enc[e].pc = "png.Encode"
    /\ \/ enc' = [enc EXCEPT ![e].pc = "Close"]
       \/ EncFail(e, "encode temp png")
    /\ UNCHANGED <<svcVars, job, processor, tmp, appVars>>

\* Lines 191-193: inFile.Close().
CloseFile(e) ==
    /\ enc[e].pc = "Close"
    /\ \/ enc' = [enc EXCEPT ![e].pc = "cwebp"]
       \/ EncFail(e, "close temp png")
    /\ UNCHANGED <<svcVars, job, processor, tmp, appVars>>

\* Lines 195-210: cwebp runs with the argument list. It exits with zero or
\* not; in both cases it may have written the output file, of any length.
RunCWebP(e) ==
    /\ enc[e].pc = "cwebp"
    /\ \E exitOK \in BOOLEAN, written \in BOOLEAN, n \in 0..1 :
          /\ written \/ n = 0
          /\ tmp' = IF written THEN tmp \cup {outPath(enc[e].tmpDir)} ELSE tmp
          /\ enc' = [enc EXCEPT ![e].pc = IF exitOK THEN "ReadFile" ELSE "defer",
                                ![e].args = EncoderArgs(processor, enc[e].tmpDir),
                                ![e].outLen = n,
                                ![e].err = IF exitOK THEN "" ELSE "cwebp failed"]
    /\ UNCHANGED <<svcVars, job, processor, appVars>>

\* Lines 212-219: os.ReadFile(outPath) and the check of its length.
ReadFile(e) ==
    /\ enc[e].pc = "ReadFile"
    /\ \/ EncFail(e, "read webp output")
       \/ /\ outPath(enc[e].tmpDir) \in tmp
          /\ IF enc[e].outLen = 0
             THEN EncFail(e, "cwebp produced empty output")
             ELSE enc' = [enc EXCEPT ![e].pc = "defer", ![e].data = enc[e].outLen]
    /\ UNCHANGED <<svcVars, job, processor, tmp, appVars>>

\* Line 178: the deferred os.RemoveAll(tmpDir) runs and the call returns.
Deferred(e) ==
    /\ enc[e].pc = "defer"
    /\ tmp' = RemoveAll(tmp, enc[e].tmpDir)
    /\ enc' = [enc EXCEPT ![e].pc = "returned"]
    /\ UNCHANGED <<svcVars, job, processor, appVars>>

NextEnc ==
    \E e \in Encoders :
        \/ EncBegin(e)
        \/ MkdirTemp(e)
        \/ Create(e)
        \/ PngEncode(e)
        \/ CloseFile(e)
        \/ RunCWebP(e)
        \/ ReadFile(e)
        \/ Deferred(e)

SpecEnc == InitEnc /\ [][NextEnc]_vars

----------------------------------------------------------------------------
\* The Twitter author crawler: repeated crawlTwitterAuthorUser calls for one
\* author, made one after the other by crawlTwitterAuthorsOnce

\* The row of the author when the program starts: none, or the id a previous
\* run wrote.
InitTw ==
    /\ ServiceInit
    /\ EncInit
    /\ on = [c \in Calls |-> 1]
    /\ job = NoJob
    /\ dl = NoDownload
    /\ pixiv = NoPixiv
    /\ crawlerState \in {{}, {[key |-> twitterStateKey, value |-> FormatInt64(1)]}}
    /\ \E l \in FetchLimits : tw = [NoCrawl EXCEPT !.limit = l]

\* ctx.Done() of the crawler's ctx is closed, and the outcomes of a store
\* request made with that ctx.
TwCtxDone == tw.cancelled
TwAnswers == IF TwCtxDone THEN {FALSE} ELSE BOOLEAN

\* crawlTwitterAuthorUser returns.
TwReturn(err) == tw' = [tw EXCEPT !.pc = "idle", !.err = err, !.crawls = tw.crawls + 1]

\* Lines 161-169: crawlTwitterAuthorsOnce calls crawlTwitterAuthorUser unless
\* ctx is done.
TwStart ==
    /\ tw.pc = "idle"
    /\ tw.crawls < MaxCrawls
    /\ ~TwCtxDone
    /\ tw' = [NoCrawl EXCEPT !.pc = "GetCrawlerState", !.crawls = tw.crawls,
                             !.limit = tw.limit, !.cancelled = tw.cancelled]
    /\ UNCHANGED <<svcVars, job, encVars, crawlerState, dl, pixiv>>

\* The ctx of the crawler is cancelled.
TwCancel ==
    /\ tw.pc # "idle"
    /\ ~tw.cancelled
    /\ tw' = [tw EXCEPT !.cancelled = TRUE]
    /\ UNCHANGED <<svcVars, job, encVars, crawlerState, dl, pixiv>>

\* Lines 178-186.
TwGetState ==
    /\ tw.pc = "GetCrawlerState"
    /\ \E ok \in TwAnswers :
          IF ~ok THEN TwReturn("get crawler state")
          ELSE LET got == GetCrawlerState(crawlerState, twitterStateKey)
               IN  tw' = [tw EXCEPT !.pc = "fetchTwitterAuthorLinks",
                                    !.lastID = IF got.ok THEN ParseInt(TrimSpace(got.value)).n
                                               ELSE 0]
    /\ UNCHANGED <<svcVars, job, encVars, crawlerState, dl, pixiv>>

\* Lines 188-215: the feed is fetched and the candidates are chosen.
TwFetch ==
    /\ tw.pc = "fetchTwitterAuthorLinks"
    /\ \/ TwReturn("fetch twitter author links")
       \/ \E links \in SUBSET LinkIDs :
             LET candidates == Candidates(links, tw.lastID, tw.limit)
             IN  IF links = {} \/ candidates = <<>> THEN TwReturn("")
                 ELSE tw' = [tw EXCEPT !.pc = "ingestTwitterFromLink",
                                       !.candidates = candidates,
                                       !.i = 1,
                                       !.highestSuccessID = tw.lastID]
    /\ UNCHANGED <<svcVars, job, encVars, crawlerState, dl, pixiv>>

\* Lines 216-228: one round of the loop over the candidates.
TwIngest ==
    /\ tw.pc = "ingestTwitterFromLink"
    /\ tw.i <= Len(tw.candidates)
    /\ IF TwCtxDone THEN TwReturn("")
       ELSE \E ok \in BOOLEAN :
               LET id == tw.candidates[tw.i]
               IN  tw' = [tw EXCEPT !.i = tw.i + 1,
                                    !.succeeded = IF ok THEN tw.succeeded \cup {id}
                                                  ELSE tw.succeeded,
                                    !.failed = IF ok THEN tw.failed ELSE tw.failed \cup {id},
                                    !.highestSuccessID =
                                        IF ok /\ id > tw.highestSuccessID THEN id
                                        ELSE tw.highestSuccessID]
    /\ UNCHANGED <<svcVars, job, encVars, crawlerState, dl, pixiv>>

\* Lines 229-234: the loop is over; the highest successful id is written when
\* it is above the last id, and a failed write is only logged.
TwSetState ==
    /\ tw.pc = "ingestTwitterFromLink"
    /\ tw.i > Len(tw.candidates)
    /\ IF tw.highestSuccessID > tw.lastID
       THEN \E ok \in TwAnswers :
               crawlerState' = IF ok
                               THEN SetCrawlerState(crawlerState, twitterStateKey,
                                                    FormatInt64(tw.highestSuccessID))
                               ELSE crawlerState
       ELSE UNCHANGED crawlerState
    /\ TwReturn("")
    /\ UNCHANGED <<svcVars, job, encVars, dl, pixiv>>

NextTw ==
    \/ TwStart
    \/ TwCancel
    \/ TwGetState
    \/ TwFetch
    \/ TwIngest
    \/ TwSetState

SpecTw == InitTw /\ [][NextTw]_vars

----------------------------------------------------------------------------
\* downloadWithHeadersRetry

\* Largest number of retries asked for.
MaxRetries == 2

\* Durations in milliseconds: the defaults of lines 44 and 47, and the
\* values the callers pass.
DefaultTimeout == 45000
DefaultBackoff == 1000
yandeDownloadTimeout == 90000
yandeRetryBackoff == 1500

\* The call is given any number of retries from below zero to MaxRetries, and
\* a timeout and a backoff that are zero or the callers' values.
InitDl ==
    /\ ServiceInit
    /\ EncInit
    /\ on = [c \in Calls |-> 1]
    /\ job = NoJob
    /\ crawlerState = {}
    /\ tw = NoCrawl
    /\ pixiv = NoPixiv
    /\ \E r \in (0 - 2)..MaxRetries, t \in {0, yandeDownloadTimeout}, b \in {0, yandeRetryBackoff} :
          dl = [NoDownload EXCEPT !.retries = r, !.asked = r, !.timeout = t, !.backoff = b]

\* return data, err
DlReturn(data, err, history) ==
    dl' = [dl EXCEPT !.pc = "returned", !.data = data, !.err = err, !.history = history]

\* Lines 40-50: the arguments are normalised.
DlCall ==
    /\ dl.pc = "idle"
    /\ dl' = [dl EXCEPT !.pc = "for",
                        !.retries = IF dl.retries < 0 THEN 0 ELSE dl.retries,
                        !.timeout = IF dl.timeout <= 0 THEN DefaultTimeout ELSE dl.timeout,
                        !.backoff = IF dl.backoff <= 0 THEN DefaultBackoff ELSE dl.backoff,
                        !.attempts = (IF dl.retries < 0 THEN 0 ELSE dl.retries) + 1,
                        !.i = 0,
                        !.lastErr = ""]
    /\ UNCHANGED <<svcVars, job, encVars, crawlerState, tw, pixiv>>

\* The caller cancels ctx before an attempt, or between a failed attempt
\* and the select of the backoff wait.
DlCancel ==
    /\ dl.pc \in {"for", "download", "sleep"}
    /\ ~dl.cancelled
    /\ dl' = [dl EXCEPT !.cancelled = TRUE]
    /\ UNCHANGED <<svcVars, job, encVars, crawlerState, tw, pixiv>>

\* Line 51 and line 64: the loop condition.
DlFor ==
    /\ dl.pc = "for"
    /\ IF dl.i < dl.attempts
       THEN dl' = [dl EXCEPT !.pc = "download"]
       ELSE DlReturn(0, dl.lastErr, dl.history)
    /\ UNCHANGED <<svcVars, job, encVars, crawlerState, tw, pixiv>>

\* Lines 52-59: one attempt. A request made with a cancelled ctx fails with
\* the cancellation; otherwise it returns data (here the number of the
\* attempt) or one of the other errors.
DlDownload ==
    /\ dl.pc = "download"
    /\ \E err \in IF dl.cancelled THEN {"context canceled"}
                  ELSE {""} \cup (DownloadErrors \ {"context canceled"}) :
          LET history == Append(dl.history, [ok |-> err = "", err |-> err, data |-> dl.i + 1])
          IN  IF err = "" THEN DlReturn(dl.i + 1, "", history)
              ELSE IF dl.i >= dl.retries \/ ~isRetryableDownloadErr(err)
              THEN DlReturn(0, err, history)
              ELSE dl' = [dl EXCEPT !.pc = "sleep",
                                    !.lastErr = err,
                                    !.history = history,
                                    !.wait = dl.backoff * (dl.i + 1)]
    /\ UNCHANGED <<svcVars, job, encVars, crawlerState, tw, pixiv>>

\* Lines 60-62 and 85-94: the select of sleepWithContext. A ctx that is
\* already done, or that is cancelled before the timer fires, ends the loop;
\* otherwise the timer fires and the loop goes on.
DlSleep ==
    /\ dl.pc = "sleep"
    /\ IF dl.cancelled THEN DlReturn(0, dl.lastErr, dl.history)
       ELSE \/ dl' = [dl EXCEPT !.pc = "for", !.i = dl.i + 1]
            \/ dl' = [dl EXCEPT !.pc = "returned", !.data = 0, !.err = dl.lastErr,
                                !.cancelled = TRUE, !.waitCancelled = TRUE]
    /\ UNCHANGED <<svcVars, job, encVars, crawlerState, tw, pixiv>>

\* The steps of the function itself.
DlStep ==
    \/ DlCall
    \/ DlFor
    \/ DlDownload
    \/ DlSleep

NextDl ==
    \/ DlStep
    \/ DlCancel

\* The goroutine that runs the function keeps running; http.Client.Timeout
\* bounds every attempt and the timer bounds every wait.
SpecDl == InitDl /\ [][NextDl]_vars /\ WF_vars(DlStep)

----------------------------------------------------------------------------
\* crawlPixivOnce

\* The crawler starts with any configuration, and with a crawler_state that
\* is empty or already holds the bootstrap flag.
InitPixiv ==
    /\ ServiceInit
    /\ EncInit
    /\ on = [c \in Calls |-> 1]
    /\ job = NoJob
    /\ tw = NoCrawl
    /\ dl = NoDownload
    /\ crawlerState \in {{}, {[key |-> pixivBootstrapStateKey, value |-> BootstrapDoneValue]}}
    /\ \E cfg \in PixivCfgs : pixiv = [NoPixiv EXCEPT !.cfg = cfg]

\* The entry of the crawl in progress, or of the last crawl made.
Last(history) == history[Len(history)]

\* A D1 request made with a cancelled ctx fails; any other may fail.
PixivAnswers == IF pixiv.cancelled THEN {FALSE} ELSE {TRUE, FALSE}

\* The history with the entry of the crawl in progress replaced.
Noted(field, value) ==
    [pixiv.history EXCEPT ![Len(pixiv.history)] = [@ EXCEPT ![field] = value]]

\* Lines 19 and 22-28, then lines 34-45: a crawl starts, reads the flag and
\* chooses its page limit. The first crawl is made whatever ctx is; a later
\* one is made when the ticker has fired, which the select of line 23 may
\* choose also when ctx is done.
PixivStart ==
    /\ pixiv.pc = "idle"
    /\ pixiv.crawls < MaxCrawls
    /\ \E ok \in PixivAnswers :
          LET got == GetCrawlerState(crawlerState, pixivBootstrapStateKey)
              order == IF pixiv.cfg.PixivCrawlOrder = "" THEN "desc" ELSE pixiv.cfg.PixivCrawlOrder
              bootstrapDone == ok /\ got.ok /\ got.value = BootstrapDoneValue
              maxPages == resolvePixivMaxPages(pixiv.cfg, bootstrapDone)
          IN  pixiv' = [pixiv EXCEPT
                  !.pc = "FetchBookmarkIDs",
                  !.bootstrapDone = bootstrapDone,
                  !.maxPages = maxPages,
                  !.offset = 0,
                  !.page = 0,
                  !.limit = maxInt(pixiv.cfg.PixivLimit, 40),
                  !.total = 0,
                  !.ids = <<>>,
                  !.allIDs = <<>>,
                  !.err = "",
                  !.history = Append(pixiv.history,
                                  [flag |-> [key |-> pixivBootstrapStateKey,
                                             value |-> BootstrapDoneValue] \in crawlerState,
                                   order |-> order,
                                   bootstrapDone |-> bootstrapDone,
                                   maxPages |-> maxPages,
                                   listingFailed |-> FALSE,
                                   abandoned |-> FALSE,
                                   wrote |-> FALSE])]
    /\ UNCHANGED <<svcVars, job, encVars, crawlerState, tw, dl>>

\* The ctx of the crawler is cancelled.
PixivCancel ==
    /\ ~pixiv.cancelled
    /\ pixiv' = [pixiv EXCEPT !.cancelled = TRUE]
    /\ UNCHANGED <<svcVars, job, encVars, crawlerState, tw, dl>>

\* Lines 84-91 of crawlPixivDesc and lines 113-127 of crawlPixivAsc: one page
\* of the listing is fetched (the request does not carry ctx).
PixivFetch ==
    /\ pixiv.pc = "FetchBookmarkIDs"
    /\ \/ pixiv' = [pixiv EXCEPT !.pc = "finish", !.err = "pixiv bookmarks error",
                                 !.history = Noted("listingFailed", TRUE)]
       \/ \E total \in 0..MaxBookmarks :
             LET ids == BookmarkIDs(pixiv.offset, pixiv.limit, total) IN
             IF Last(pixiv.history).order = "asc"
             THEN IF ids = <<>>
                  THEN pixiv' = [pixiv EXCEPT !.pc = "processPixivID", !.total = total,
                                              !.ids = Backwards(pixiv.allIDs)]
                  ELSE LET allIDs == pixiv.allIDs \o ids
                           stop == shouldStopPageLoop(pixiv.page + 1, pixiv.offset + pixiv.limit,
                                                      total, pixiv.maxPages)
                       IN  pixiv' = [pixiv EXCEPT
                               !.pc = IF stop THEN "processPixivID" ELSE "FetchBookmarkIDs",
                               !.total = total,
                               !.allIDs = allIDs,
                               !.page = pixiv.page + 1,
                               !.offset = pixiv.offset + pixiv.limit,
                               !.ids = IF stop THEN Backwards(allIDs) ELSE <<>>]
             ELSE IF ids = <<>>
                  THEN pixiv' = [pixiv EXCEPT !.pc = "finish", !.total = total]
                  ELSE pixiv' = [pixiv EXCEPT !.pc = "processPixivID", !.total = total,
                                              !.ids = ids]
    /\ UNCHANGED <<svcVars, job, encVars, crawlerState, tw, dl>>

\* Lines 92-103 of crawlPixivDesc and lines 128-134 of crawlPixivAsc: the
\* next id is processed unless ctx is done, which abandons the pass with
\* no error; after the last id the page loop goes on or ends. What
\* processPixivID stores is not part of the crawler's state.
PixivProcess ==
    /\ pixiv.pc = "processPixivID"
    /\ IF pixiv.ids # <<>>
       THEN IF pixiv.cancelled
            THEN pixiv' = [pixiv EXCEPT !.pc = "finish",
                                        !.history = Noted("abandoned", TRUE)]
            ELSE pixiv' = [pixiv EXCEPT !.ids = Tail(pixiv.ids)]
       ELSE IF Last(pixiv.history).order = "asc"
            THEN pixiv' = [pixiv EXCEPT !.pc = "finish"]
            ELSE pixiv' = [pixiv EXCEPT
                    !.page = pixiv.page + 1,
                    !.offset = pixiv.offset + pixiv.limit,
                    !.pc = IF shouldStopPageLoop(pixiv.page + 1, pixiv.offset + pixiv.limit,
                                                 pixiv.total, pixiv.maxPages)
                           THEN "finish" ELSE "FetchBookmarkIDs"]
    /\ UNCHANGED <<svcVars, job, encVars, crawlerState, tw, dl>>

\* Lines 53-63: after a pass that returned no error in bootstrap mode the
\* flag is written; a failed write is only logged.
PixivFinish ==
    /\ pixiv.pc = "finish"
    /\ IF pixiv.err = "" /\ ~pixiv.bootstrapDone
       THEN \E ok \in PixivAnswers :
               IF ok
               THEN /\ crawlerState' = SetCrawlerState(crawlerState, pixivBootstrapStateKey,
                                                       BootstrapDoneValue)
                    /\ pixiv' = [pixiv EXCEPT !.pc = "idle", !.crawls = pixiv.crawls + 1,
                                              !.history = Noted("wrote", TRUE)]
               ELSE /\ pixiv' = [pixiv EXCEPT !.pc = "idle", !.crawls = pixiv.crawls + 1]
                    /\ UNCHANGED crawlerState
       ELSE /\ pixiv' = [pixiv EXCEPT !.pc = "idle", !.crawls = pixiv.crawls + 1]
            /\ UNCHANGED crawlerState
    /\ UNCHANGED <<svcVars, job, encVars, tw, dl>>

NextPixiv ==
    \/ PixivStart
    \/ PixivCancel
    \/ PixivFetch
    \/ PixivProcess
    \/ PixivFinish

SpecPixiv == InitPixiv /\ [][NextPixiv]_vars

----------------------------------------------------------------------------
\* Vocabulary of the properties

Done(c) == pc[c] = "done"
Added(c) == Done(c) /\ res[c].Added
Skipped(c) == Done(c) /\ ~res[c].Added /\ res[c].err = "" /\ res[c].SkipReason # ""

\* InsertGalleryImage has succeeded for the call.
Inserted(c) == pc[c] = "CountGalleryActive" \/ Added(c)

\* The call is between the lock acquisition and its return.
InSpan(c) ==
    pc[c] \in {"RecheckSource", "RecheckHash", "NextSeq", "PutObject",
               "InsertGalleryImage", "DeleteObject", "DeleteObjectWait",
               "CountGalleryActive"}

\* The call has been given a sequence number.
Allocated(c) == seq[c] # 0

\* The call returned the upload error or the insertion error.
FailedAfterAllocation(c) ==
    /\ Done(c)
    /\ res[c].err \in {"upload r2", "insert gallery image: constraint",
                       "insert gallery image: d1 error",
                       "insert gallery image: context canceled"}

Ops(c) == {log[c][i].op : i \in 1..Len(log[c])}

DuplicateReasons ==
    {"duplicate_source", "duplicate_hash", "duplicate_source_race", "duplicate_hash_race"}

SameFingerprint(c, d) ==
    /\ c # d
    /\ prepared[c].ok
    /\ prepared[d].ok
    /\ prepared[c].SHA256 = prepared[d].SHA256

----------------------------------------------------------------------------
\* C1: among the StoreToGallery calls whose prepared images have the same
\* SHA256, at most one has a successful InsertGalleryImage and at most one
\* returns Added=true (none when a record with that SHA256 existed before);
\* every other such call that returns without a store error returns a
\* duplicate skip, also under a different source_key; and no such call goes
\* on to sequence allocation, upload or insert while a record with its
\* SHA256 exists.
C1_OneInsertPerFingerprint ==
    /\ \A c, d \in Calls :
        SameFingerprint(c, d) =>
            /\ ~(Inserted(c) /\ Inserted(d))
            /\ (Added(c) /\ Done(d) /\ res[d].err = "")
                  => (~res[d].Added /\ res[d].SkipReason \in DuplicateReasons)
    /\ \A c \in Calls :
        (prepared[c].ok /\ prepared[c].SHA256 = PreImage.sha256) => ~Inserted(c)
    /\ \A c \in Calls :
        pc[c] \in {"NextSeq", "PutObject", "InsertGalleryImage"}
            => \A r \in records : r.sha256 # prepared[c].SHA256

\* Two calls with one fingerprint under different source keys ran
\* interleaved: one was added, the other was skipped by the in-lock recheck.
C1_Witness ==
    \E c, d \in Calls :
        /\ SameFingerprint(c, d)
        /\ in[c].SourceKey # in[d].SourceKey
        /\ Added(c)
        /\ Skipped(d)
        /\ res[d].SkipReason = "duplicate_hash_race"

----------------------------------------------------------------------------
\* C2 (as claimed): of the StoreToGallery calls that share a source_key, only
\* one returns Added=true, and every other call whose input is valid and whose
\* store requests are all answered returns a skip with a nil error.  (The
\* claim also fixes the skip reason; this is the part of it that the
\* concurrent calls of different orientation contradict.)
C2_SameSourceKeySkips ==
    \A c, d \in Calls :
        (c # d /\ in[c].SourceKey = in[d].SourceKey /\ Added(c) /\ Done(d))
            => /\ ~res[d].Added
               /\ res[d].err # "insert gallery image: constraint"

----------------------------------------------------------------------------
\* C3: for each orientation, the seq values of the records inserted by the
\* calls that returned Added=true are exactly k+1, ..., k+N, where k is the
\* maximum seq of that orientation before the calls started and N the number
\* of those calls: no duplicate, no value skipped, none reused.
PreMaxSeq(o) == IF o = PreImage.orientation THEN PreImage.seq ELSE 0

AddedOf(o) == {c \in Calls : Added(c) /\ prepared[c].Orientation = o}

C3_DenseSeq ==
    \A o \in {"h", "v"} :
        /\ {res[c].Image.seq : c \in AddedOf(o)}
              = (PreMaxSeq(o) + 1)..(PreMaxSeq(o) + Cardinality(AddedOf(o)))
        /\ \A c, d \in AddedOf(o) : c # d => res[c].Image.seq # res[d].Image.seq
        /\ \A c \in AddedOf(o) : InsertRow(res[c].Image) \in records

\* All calls succeeded, with pairwise distinct fingerprints and source keys
\* and one orientation, and every call started before any of them returned.
C3_Witness ==
    /\ \A c \in Calls : Added(c) /\ prepared[c].Orientation = "h"
    /\ \A c, d \in Calls :
        c # d => /\ prepared[c].SHA256 # prepared[d].SHA256
                 /\ in[c].SourceKey # in[d].SourceKey
    /\ \A c \in Calls : before[c] = {}

----------------------------------------------------------------------------
\* C4: every metadata record has a payload in the blob store at its r2_key,
\* and the hash of that payload is the record's sha256.
C4_RecordHasBlob ==
    \A r \in records :
        \E b \in blobs : b.key = r.r2_key /\ SHA256(b.data) = r.sha256

\* A call has committed a record while another call's insert failed and its
\* compensating delete removed the uploaded object.
C4_Witness ==
    \E c, d \in Calls :
        /\ c # d
        /\ Added(c)
        /\ Done(d)
        /\ \E i \in 1..Len(log[d]) : log[d][i] = [op |-> "DeleteObject", ok |-> TRUE]

----------------------------------------------------------------------------
\* C5 (as claimed): a sequence number returned by NextGallerySeq to a call
\* whose upload or insert then failed is never returned again by
\* NextGallerySeq for that orientation.
C5_NoSeqReuse ==
    \A c, d \in Calls :
        (/\ c # d
         /\ FailedAfterAllocation(d)
         /\ Allocated(c)
         /\ prepared[c].Orientation = prepared[d].Orientation)
            => seq[c] # seq[d]

\* No record of orientation o has seq n or more, and n is 1 + the maximum
\* seq of the records of orientation o.
SeqFree(recs, o, n) ==
    /\ \A r \in recs : r.orientation = o => r.seq < n
    /\ n = 1 \/ \E r \in recs : r.orientation = o /\ r.seq = n - 1

\* C5 (amended): the sequence number of a call whose upload or insert failed
\* is not persisted: when the call returns its error, no record of that
\* orientation holds that number or a higher one and the number is again
\* 1 + the maximum existing seq, the value the next NextGallerySeq returns.
C5_FailedSeqIsNextAgain ==
    [][\A c \in Calls :
         (pc[c] \in {"PutObject", "DeleteObject"} /\ pc'[c] = "done")
            => SeqFree(records', prepared[c].Orientation, seq[c])]_vars

\* A call failed after its allocation and returned; another call was given
\* the same number for the same orientation and has inserted its record.
C5_Witness ==
    \E c, d \in Calls :
        /\ FailedAfterAllocation(d)
        /\ Inserted(c)
        /\ prepared[c].Orientation = prepared[d].Orientation
        /\ seq[c] = seq[d]

----------------------------------------------------------------------------
InsertErrors ==
    {"insert gallery image: constraint", "insert gallery image: d1 error",
     "insert gallery image: context canceled"}

LastOps(c, n) == SubSeq(log[c], Len(log[c]) - n + 1, Len(log[c]))

\* C6: a call whose InsertGalleryImage failed after a successful PutObject
\* calls DeleteObject and returns the insertion error; when that delete
\* succeeded the blob store holds no object at the derived key at the moment
\* of the return, and no metadata record with that key exists.
C6_Compensation ==
    [][\A c \in Calls :
         /\ (pc[c] = "InsertGalleryImage"
               /\ pc'[c] \notin {"InsertGalleryImage", "CountGalleryActive"})
               => (pc'[c] = "DeleteObject" /\ res'[c].err \in InsertErrors)
         /\ (pc[c] = "DeleteObject" /\ pc'[c] # "DeleteObject")
               => LET key == R2Key(prepared[c].Orientation, seq[c])
                      n == Len(log'[c])
                  IN  /\ pc'[c] = "done"
                      /\ res'[c].err \in InsertErrors
                      /\ ~res'[c].Added
                      /\ n >= 3
                      /\ log'[c][n - 2] = [op |-> "PutObject", ok |-> TRUE]
                      /\ log'[c][n - 1] = [op |-> "InsertGalleryImage", ok |-> FALSE]
                      /\ log'[c][n].op = "DeleteObject"
                      /\ log'[c][n].ok => \A b \in blobs' : b.key # key
                      /\ \A r \in records' : r.r2_key # key]_vars

\* A call returned the insertion error after a compensating delete that
\* succeeded, and its key holds no object.
C6_Witness ==
    \E c \in Calls :
        /\ Done(c)
        /\ res[c].err \in InsertErrors
        /\ LastOps(c, 1) = <<[op |-> "DeleteObject", ok |-> TRUE]>>
        /\ \A b \in blobs : b.key # R2Key(prepared[c].Orientation, seq[c])

----------------------------------------------------------------------------
AllAnswered(c) == \A i \in 1..Len(log[c]) : log[c][i].ok

\* Call c returned Added=true before call d started; both have source_key
\* "a", different raw bytes and the same resulting fingerprint, and every
\* store request of d was answered.
C7_Case(c, d) ==
    /\ c \in before[d]
    /\ Added(c)
    /\ Done(d)
    /\ AllAnswered(d)
    /\ in[c].SourceKey = <<"a">>
    /\ in[d].SourceKey = <<"a">>
    /\ in[c].RawData # in[d].RawData
    /\ Prepare(in[d].RawData, TRUE).SHA256 = prepared[c].SHA256

\* C7 (as claimed): the second of two sequential calls with source_key "a",
\* different raw bytes and the same fingerprint returns Added=false with
\* SkipReason "duplicate_hash".
C7_SecondIsDuplicateHash ==
    \A c, d \in Calls :
        C7_Case(c, d) => (~res[d].Added /\ res[d].SkipReason = "duplicate_hash")

\* C7 (amended): the second call returns Added=false with SkipReason
\* "duplicate_source", without a fingerprint: the source-level check runs
\* before the normalization and the hash check.
C7_SecondIsDuplicateSource ==
    \A c, d \in Calls :
        C7_Case(c, d) => res[d] = Skip("duplicate_source", NoHash)

C7_Witness ==
    \E c, d \in Calls :
        /\ C7_Case(c, d)
        /\ res[d].SkipReason = "duplicate_source"
        /\ Ops(d) = {"IsBlocked", "ExistsGallerySourceKey"}

----------------------------------------------------------------------------
WorkOps ==
    {"ExistsGallerySourceKey", "Prepare", "ExistsGallerySHA256", "NextGallerySeq",
     "PutObject", "InsertGalleryImage", "DeleteObject", "CountGalleryActive"}

BlockedCall(c) ==
    /\ pc[c] # "idle"
    /\ in[c].SourceKey # <<>>
    /\ in[c].SourceKey \in blocklist

\* C8 (as claimed): a call whose non-empty source_key is in the blocklist
\* returns Added=false with SkipReason "blocked_source" whatever the raw
\* bytes, and invokes none of the Normalizer, the dedup checks, the sequence
\* allocation, the upload and the insert.
C8_BlockedAlwaysSkips ==
    \A c \in Calls :
        (BlockedCall(c) /\ Done(c) /\ AllAnswered(c))
            => /\ res[c] = Skip("blocked_source", NoHash)
               /\ Ops(c) \cap WorkOps = {}

\* C8 (amended): such a call with non-empty raw bytes, decodable or not, whose
\* IsBlocked query is answered returns Added=false with SkipReason
\* "blocked_source", whether or not its source_key or content has a record;
\* with zero-length raw bytes it returns the validation error instead; in
\* every case it invokes none of the Normalizer, the dedup checks, the
\* sequence allocation, the upload and the insert.
C8_BlockedSkipsBeforeWork ==
    \A c \in Calls :
        BlockedCall(c)
            => /\ pc[c] \in {"IsBlocked", "done"}
               /\ Ops(c) \cap WorkOps = {}
               /\ (Done(c) /\ in[c].RawData.len > 0 /\ AllAnswered(c))
                     => res[c] = Skip("blocked_source", NoHash)
               /\ (Done(c) /\ in[c].RawData.len = 0)
                     => res[c] = Fail("raw image data is empty")

\* A blocked call with undecodable bytes and a blocked call whose
\* source_key and content both have a record were skipped.
C8_Witness ==
    \E c, d \in Calls :
        /\ BlockedCall(c)
        /\ BlockedCall(d)
        /\ in[c].RawData = Garbage
        /\ res[c] = Skip("blocked_source", NoHash)
        /\ \E r \in records : r.source_key = in[d].SourceKey
        /\ \E r \in records : r.sha256 = SHA256(in[d].RawData)
        /\ res[d] = Skip("blocked_source", NoHash)
        /\ log[d] = <<[op |-> "IsBlocked", ok |-> TRUE]>>

----------------------------------------------------------------------------
InvalidInput(i) == i.SourceKey = <<>> \/ i.RawData.len = 0

\* C9: a call with a blank source_key or zero-length raw bytes returns an
\* error at once: it makes no call to the metadata store, the blob store or
\* the Normalizer, then or later, and its return leaves both stores unchanged.
C9_InvalidInputNoIO ==
    [][\A c \in Calls :
         (pc'[c] # "idle" /\ InvalidInput(in'[c]))
            => /\ pc'[c] = "done"
               /\ res'[c].err \in {"source_key is required", "raw image data is empty"}
               /\ ~res'[c].Added
               /\ res'[c].SkipReason = ""
               /\ log'[c] = <<>>
               /\ pc[c] = "idle" => (records' = records /\ blobs' = blobs)]_vars

\* A call with a blank source_key and a call with empty raw bytes returned
\* their errors while a record inserted by no call is all the store holds.
C9_Witness ==
    \E c, d \in Calls :
        /\ Done(c)
        /\ Done(d)
        /\ res[c].err = "source_key is required"
        /\ res[d].err = "raw image data is empty"
        /\ log[c] = <<>>
        /\ log[d] = <<>>

----------------------------------------------------------------------------
\* C10: two calls whose prepared orientation is equal are never both between
\* the lock acquisition and the return; the holder of a mutex is unique.
C10_OneInSpanPerOrientation ==
    /\ \A c, d \in Calls :
        (c # d /\ InSpan(c) /\ InSpan(d))
            => prepared[c].Orientation # prepared[d].Orientation
    /\ \A c \in Calls :
        InSpan(c) <=> lock[c] = orientationLock(on[c], prepared[c].Orientation)
    /\ \A m \in {"muH", "muV"} : mu[m] <=> \E c \in Calls : lock[c] = m

\* One call is inside the span while another call of the same orientation
\* waits for the mutex.
C10_Witness ==
    \E c, d \in Calls :
        /\ c # d
        /\ prepared[c].Orientation = prepared[d].Orientation
        /\ InSpan(c)
        /\ pc[d] = "Lock"

----------------------------------------------------------------------------
\* C11: the critical sections of h and v are independent.  A call that waits
\* at lock.Lock() can take its mutex whenever no other call of its own
\* orientation is between lock acquisition and return, whatever the calls of
\* the other orientation are doing; and a held mutex is the one of the
\* holder's orientation.
C11_IndependentSections ==
    \A c \in Calls :
        /\ (pc[c] = "Lock"
              /\ ~\E d \in Calls :
                    /\ d # c
                    /\ InSpan(d)
                    /\ prepared[d].Orientation = prepared[c].Orientation)
            => ENABLED Lock(c)
        /\ InSpan(c)
            => lock[c] = (IF prepared[c].Orientation = "v" THEN "muV" ELSE "muH")

\* One call is inside the h critical section and another inside the v one.
C11_Witness ==
    \E c, d \in Calls :
        /\ InSpan(c)
        /\ InSpan(d)
        /\ lock[c] = "muH"
        /\ lock[d] = "muV"
        /\ prepared[c].Orientation = "h"
        /\ prepared[d].Orientation = "v"

----------------------------------------------------------------------------
\* C12: a call holds an orientation mutex only while it is at the in-lock
\* rechecks, the sequence allocation, the upload, the insert or the
\* compensating delete: never before lock.Lock(), and never while
\* CountGalleryActive runs.
C12_LockOnlyAcrossInsertSteps ==
    \A c \in Calls :
        lock[c] # ""
        => pc[c] \in {"RecheckSource", "RecheckHash", "NextSeq", "PutObject",
                      "InsertGalleryImage", "DeleteObject"}

----------------------------------------------------------------------------
\* C13: from the step in which NextGallerySeq answers a call until the step
\* in which the call's record is inserted, the call's seq is 1 + the maximum
\* seq over the existing records of its orientation (1 when there is none):
\* no record of that orientation appears in between, and the inserted record
\* carries that seq.
C13_SeqIsNextUntilInsert ==
    [][\A c \in Calls :
         /\ pc'[c] \in {"PutObject", "InsertGalleryImage"}
            => SeqFree(records', prepared'[c].Orientation, seq'[c])
         /\ (pc[c] = "InsertGalleryImage" /\ pc'[c] = "CountGalleryActive")
            => \E r \in records' :
                 /\ records' \ records = {r}
                 /\ r.orientation = prepared[c].Orientation
                 /\ r.seq = seq[c]
                 /\ SeqFree(records, r.orientation, r.seq)
      ]_vars

\* Two calls of one orientation were inserted one after the other, the first
\* with the number that follows the record that existed before.
C13_Witness ==
    \E c, d \in Calls :
        /\ c # d
        /\ Inserted(c)
        /\ Inserted(d)
        /\ prepared[c].Orientation = prepared[d].Orientation
        /\ seq[d] = seq[c] + 1
        /\ seq[c] = PreMaxSeq(prepared[c].Orientation) + 1

----------------------------------------------------------------------------
\* C14: in every reachable state no two records of the metadata store share
\* a source_key, a sha256, an (orientation, seq) pair or an r2_key, whatever
\* their status and however the calls interleave.
C14_UniqueRecords ==
    \A r, q \in records :
        r # q
        => /\ r.source_key # q.source_key
           /\ r.sha256 # q.sha256
           /\ ~(r.orientation = q.orientation /\ r.seq = q.seq)
           /\ r.r2_key # q.r2_key

\* Two calls with the same source_key raced through different mutexes: one
\* was inserted, the other one's row was rejected by the table.
C14_Witness ==
    \E c, d \in Calls :
        /\ c # d
        /\ Inserted(c)
        /\ in[c].SourceKey = in[d].SourceKey
        /\ Done(d)
        /\ res[d].err = "insert gallery image: constraint"
        /\ Cardinality(records) = 2

----------------------------------------------------------------------------
\* C15: a call whose CountGalleryActive failed after its InsertGalleryImage
\* succeeded returns a nil error with Added=true, the inserted image, the
\* fingerprint and zero counts; its record and its blob stay in place and no
\* DeleteObject is called.
C15_CountFailureKeepsInsert ==
    \A c \in Calls :
        (/\ Done(c)
         /\ log[c] # <<>>
         /\ LastOps(c, 1) = <<[op |-> "CountGalleryActive", ok |-> FALSE]>>)
        => /\ res[c].err = ""
           /\ res[c].Added
           /\ res[c].SkipReason = ""
           /\ res[c].Image = BuildImage(c)
           /\ res[c].ContentHash = prepared[c].SHA256
           /\ res[c].Counts = [H |-> 0, V |-> 0]
           /\ InsertRow(res[c].Image) \in records
           /\ [key |-> res[c].Image.r2_key, data |-> prepared[c].WebPBytes] \in blobs
           /\ "DeleteObject" \notin Ops(c)

\* A call returned after its count query failed, while the store held more
\* than zero active records.
C15_Witness ==
    \E c \in Calls :
        /\ Done(c)
        /\ log[c] # <<>>
        /\ LastOps(c, 1) = <<[op |-> "CountGalleryActive", ok |-> FALSE]>>
        /\ [op |-> "InsertGalleryImage", ok |-> TRUE] \in {log[c][i] : i \in 1..Len(log[c])}
        /\ CountGalleryActive(records).H > 0

----------------------------------------------------------------------------
\* C16: a call whose PutObject failed returns the upload error at once: the
\* failed PutObject is its last store call, it calls neither
\* InsertGalleryImage nor DeleteObject, and its return leaves the metadata
\* store and the blob store as they were, with no record at the derived key.
C16_UploadFailureStops ==
    [][\A c \in Calls :
         (/\ pc'[c] = "done"
          /\ \E i \in 1..Len(log'[c]) :
                log'[c][i] = [op |-> "PutObject", ok |-> FALSE])
         => /\ res'[c].err = "upload r2"
            /\ ~res'[c].Added
            /\ res'[c].SkipReason = ""
            /\ log'[c][Len(log'[c])] = [op |-> "PutObject", ok |-> FALSE]
            /\ \A i \in 1..Len(log'[c]) :
                  log'[c][i].op \notin {"InsertGalleryImage", "DeleteObject",
                                        "CountGalleryActive"}
            /\ pc[c] = "PutObject"
               => /\ records' = records
                  /\ blobs' = blobs
                  /\ \A r \in records' :
                        r.r2_key # R2Key(prepared[c].Orientation, seq[c])
      ]_vars

\* A call returned the upload error.
C16_Witness ==
    \E c \in Calls :
        /\ Done(c)
        /\ res[c].err = "upload r2"
        /\ log[c] # <<>>
        /\ LastOps(c, 1) = <<[op |-> "PutObject", ok |-> FALSE]>>

----------------------------------------------------------------------------
\* C17: a call whose caller's context is cancelled when InsertGalleryImage
\* fails goes on to the compensating DeleteObject with the insertion error,
\* and that delete is made with a context the cancellation does not reach:
\* the blob store can still answer it successfully.
C17_DeleteSurvivesCancellation ==
    /\ [](\A c \in Calls :
            (pc[c] = "DeleteObject" /\ cancelled[c])
            => ENABLED (DeleteObject(c) /\ log'[c][Len(log'[c])].ok))
    /\ [][\A c \in Calls :
            (pc[c] = "InsertGalleryImage" /\ cancelled[c] /\ pc'[c] # pc[c])
            => /\ pc'[c] = "DeleteObject"
               /\ res'[c].err = "insert gallery image: context canceled"
         ]_vars

\* A call whose insert failed on the cancelled context has returned after a
\* successful compensating delete: its blob is gone.
C17_Witness ==
    \E c \in Calls :
        /\ Done(c)
        /\ cancelled[c]
        /\ res[c].err = "insert gallery image: context canceled"
        /\ LastOps(c, 2) = <<[op |-> "InsertGalleryImage", ok |-> FALSE],
                             [op |-> "DeleteObject", ok |-> TRUE]>>
        /\ \A b \in blobs : b.key # R2Key(prepared[c].Orientation, seq[c])

----------------------------------------------------------------------------
\* C18: every call that acquired an orientation mutex eventually releases it
\* and returns, also when the blob store never answers the compensating
\* delete.
C18_LockEventuallyReleased ==
    \A c \in Calls : (lock[c] # "") ~> (pc[c] = "done" /\ lock[c] = "")

----------------------------------------------------------------------------
\* The six calls that precede the sequence allocation, all answered.
ChecksBeforeAllocation ==
    <<[op |-> "IsBlocked", ok |-> TRUE],
      [op |-> "ExistsGallerySourceKey", ok |-> TRUE],
      [op |-> "Prepare", ok |-> TRUE],
      [op |-> "ExistsGallerySHA256", ok |-> TRUE],
      [op |-> "ExistsGallerySourceKey", ok |-> TRUE],
      [op |-> "ExistsGallerySHA256", ok |-> TRUE]>>

\* C19: a call calls NextGallerySeq only as its seventh step, after the
\* blocklist check, the pre-lock source check, Prepare, the pre-lock hash
\* check and both in-lock rechecks were answered and let it pass, and with
\* the mutex of its orientation taken; a call that ends in a skip or in a
\* Prepare error has never called NextGallerySeq and has no seq.
C19_AllocationIsLast ==
    \A c \in Calls :
        /\ "NextGallerySeq" \in Ops(c)
           => /\ Len(log[c]) >= 7
              /\ SubSeq(log[c], 1, 6) = ChecksBeforeAllocation
              /\ log[c][7].op = "NextGallerySeq"
              /\ \A i \in 8..Len(log[c]) : log[c][i].op # "NextGallerySeq"
              /\ in[c].SourceKey \notin blocklist
              /\ prepared[c].ok
              /\ Done(c) \/ lock[c] # ""
        /\ (Skipped(c) \/ (Done(c) /\ res[c].err = "Prepare"))
           => /\ "NextGallerySeq" \notin Ops(c)
              /\ ~Allocated(c)
        /\ Allocated(c) => [op |-> "NextGallerySeq", ok |-> TRUE] \in
                              {log[c][i] : i \in 1..Len(log[c])}

\* One call was given a seq; another one ended in a skip decided by an
\* in-lock recheck and was given none.
C19_Witness ==
    \E c, d \in Calls :
        /\ Allocated(c)
        /\ Skipped(d)
        /\ res[d].SkipReason \in {"duplicate_source_race", "duplicate_hash_race"}
        /\ ~Allocated(d)

----------------------------------------------------------------------------
\* The store and processor calls that only read.
ReadOps == {"IsBlocked", "ExistsGallerySourceKey", "Prepare", "ExistsGallerySHA256"}

\* The number of calls a call has made when it returns each skip reason.
SkipStep ==
    [r \in {"blocked_source"} \cup DuplicateReasons |->
        CASE r = "blocked_source" -> 1
          [] r = "duplicate_source" -> 2
          [] r = "duplicate_hash" -> 4
          [] r = "duplicate_source_race" -> 5
          [] r = "duplicate_hash_race" -> 6]

\* C20: a call that returns a skip has made only the checks up to the one
\* that decided the skip (and Prepare), all of them answered, and nothing
\* after it: no NextGallerySeq, PutObject, InsertGalleryImage, DeleteObject
\* or CountGalleryActive; none of its steps, its return included, changes
\* the metadata store or the blob store.
C20_SkipChangesNothing ==
    [][\A c \in Calls :
         /\ (pc'[c] = "done" /\ ~res'[c].Added /\ res'[c].err = ""
               /\ res'[c].SkipReason # "")
            => /\ res'[c].SkipReason \in DOMAIN SkipStep
               /\ Len(log'[c]) = SkipStep[res'[c].SkipReason]
               /\ \A i \in 1..Len(log'[c]) :
                     log'[c][i].op \in ReadOps /\ log'[c][i].ok
               /\ seq'[c] = 0
               /\ res'[c].Image = NoImage
               /\ pc[c] # "done" => (records' = records /\ blobs' = blobs)
         /\ (Len(log'[c]) = Len(log[c]) + 1 /\ log'[c][Len(log'[c])].op \in ReadOps)
            => (records' = records /\ blobs' = blobs)
      ]_vars

\* A call has returned the skip decided by the in-lock hash recheck, its
\* sixth call, after another call's record of the same picture was inserted.
C20_Witness ==
    \E c, d \in Calls :
        /\ Added(c)
        /\ Skipped(d)
        /\ res[d].SkipReason = "duplicate_hash_race"
        /\ Len(log[d]) = 6
        /\ res[d].ContentHash = res[c].ContentHash

----------------------------------------------------------------------------
\* The calls of a call whose record was inserted, in their order: the six
\* checks, the allocation, the upload and the insert, all answered.
StepsToInsert ==
    ChecksBeforeAllocation \o
    <<[op |-> "NextGallerySeq", ok |-> TRUE],
      [op |-> "PutObject", ok |-> TRUE],
      [op |-> "InsertGalleryImage", ok |-> TRUE]>>

\* C21: the metadata store holds the record that existed before and exactly
\* the records of the calls whose insert succeeded, each as it was inserted
\* (nothing is updated or deleted); such a call has first made, in this
\* order, the blocklist check, the pre-lock and in-lock source and hash
\* checks, the allocation and a successful PutObject, and its source_key
\* is not blocked.
C21_InsertAfterChecksAndUpload ==
    /\ PreImage \in records
    /\ records \ {PreImage} = {InsertRow(BuildImage(c)) : c \in {d \in Calls : Inserted(d)}}
    /\ \A c \in Calls :
          /\ Inserted(c)
             => /\ Len(log[c]) >= 9
                /\ SubSeq(log[c], 1, 9) = StepsToInsert
                /\ in[c].SourceKey \notin blocklist
          /\ [op |-> "InsertGalleryImage", ok |-> TRUE] \in
                {log[c][i] : i \in 1..Len(log[c])}
             => Inserted(c)

\* Two calls' records were inserted, and the first one's record is still
\* there, unchanged, after the second call returned.
C21_Witness ==
    \E c, d \in Calls :
        /\ c # d
        /\ Added(c)
        /\ Added(d)
        /\ c \in before[d]
        /\ Cardinality(records) = 3
        /\ InsertRow(res[c].Image) \in records

----------------------------------------------------------------------------
\* How often a call has invoked an operation.
TimesCalled(c, op) == Cardinality({i \in 1..Len(log[c]) : log[c][i].op = op})

\* The operations whose failure is absorbed.
BestEffortOps == {"DeleteObject", "CountGalleryActive"}

\* The operation a call can invoke as its i-th one.
StepOps ==
    <<{"IsBlocked"}, {"ExistsGallerySourceKey"}, {"Prepare"}, {"ExistsGallerySHA256"},
      {"ExistsGallerySourceKey"}, {"ExistsGallerySHA256"}, {"NextGallerySeq"},
      {"PutObject"}, {"InsertGalleryImage"}, {"DeleteObject", "CountGalleryActive"}>>

\* C22: nothing is retried inside a call.  The operations a call invokes
\* are a prefix of: IsBlocked, the source check, Prepare, the hash check, the
\* source recheck, the hash recheck, NextGallerySeq, PutObject,
\* InsertGalleryImage and then either DeleteObject or CountGalleryActive; so
\* each is invoked at most once and the two existence checks at most twice.
\* A failed step that is not best-effort is the call's last one and the
\* call has returned, except that a failed insert is followed by the one
\* compensating delete.
C22_NoRetry ==
    \A c \in Calls :
        /\ Len(log[c]) <= Len(StepOps)
        /\ \A i \in 1..Len(log[c]) :
              /\ log[c][i].op \in StepOps[i]
              /\ (~log[c][i].ok /\ log[c][i].op \notin BestEffortOps)
                 => IF log[c][i].op = "InsertGalleryImage"
                    THEN \/ i = Len(log[c]) /\ pc[c] \in {"DeleteObject", "DeleteObjectWait"}
                         \/ /\ i = Len(log[c]) - 1
                            /\ log[c][Len(log[c])].op = "DeleteObject"
                            /\ Done(c)
                    ELSE i = Len(log[c]) /\ Done(c) /\ res[c].err # ""

\* A call made every check twice and every other operation once and was
\* added; another one returned at its first failed request.
C22_Witness ==
    \E c, d \in Calls :
        /\ Added(c)
        /\ TimesCalled(c, "ExistsGallerySourceKey") = 2
        /\ TimesCalled(c, "ExistsGallerySHA256") = 2
        /\ Len(log[c]) = 10
        /\ Done(d)
        /\ log[d] # <<>>
        /\ ~log[d][Len(log[d])].ok
        /\ log[d][Len(log[d])].op = "NextGallerySeq"

----------------------------------------------------------------------------
\* The call has had a failure of a step that is not best-effort.
HardFailure(c) ==
    \E i \in 1..Len(log[c]) : ~log[c][i].ok /\ log[c][i].op \notin BestEffortOps

\* The error StoreToGallery returns for the failure of each operation.
ErrorsOf(op) ==
    IF op = "PutObject" THEN {"upload r2"}
    ELSE IF op = "InsertGalleryImage" THEN InsertErrors
    ELSE {op}

\* C23: a returned call whose IsBlocked, ExistsGallerySourceKey, Prepare,
\* ExistsGallerySHA256, NextGallerySeq, PutObject or InsertGalleryImage
\* failed has a non-nil error, the error of that step, with Added=false, no
\* skip reason and a zero result; a returned call that made a request and
\* had no failure other than of DeleteObject or CountGalleryActive has a nil
\* error; a call that made no request returned a precondition error.
C23_ErrorsPropagate ==
    \A c \in Calls :
        Done(c)
        => /\ \A i \in 1..Len(log[c]) :
                 (~log[c][i].ok /\ log[c][i].op \notin BestEffortOps)
                 => /\ res[c].err \in ErrorsOf(log[c][i].op)
                    /\ ~res[c].Added
                    /\ res[c].SkipReason = ""
                    /\ res[c].Image = NoImage
                    /\ res[c].Counts = [H |-> 0, V |-> 0]
                    /\ res[c].ContentHash = NoHash
           /\ (log[c] # <<>> /\ ~HardFailure(c)) => res[c].err = ""
           /\ log[c] = <<>>
                 => res[c].err \in {"source_key is required", "raw image data is empty"}

\* Calls have returned an error after a failed request, a nil error after a
\* failed count query, and the insertion error after a failed delete.
C23_Witness ==
    \E c, d \in Calls :
        /\ Done(c)
        /\ Done(d)
        /\ log[c] # <<>>
        /\ LastOps(c, 1) = <<[op |-> "CountGalleryActive", ok |-> FALSE]>>
        /\ res[c].err = ""
        /\ Len(log[d]) >= 2
        /\ LastOps(d, 2) = <<[op |-> "InsertGalleryImage", ok |-> FALSE],
                             [op |-> "DeleteObject", ok |-> FALSE]>>
        /\ res[d].err \in InsertErrors

----------------------------------------------------------------------------
\* The three variants of a StoreToGallery return.
AddedVariant(r) ==
    /\ r.err = ""
    /\ r.Added
    /\ r.SkipReason = ""
    /\ r.Image # NoImage
    /\ r.Image.status = "active"
    /\ r.Image.sha256 # NoHash
    /\ r.ContentHash = r.Image.sha256

SkipVariant(r) ==
    /\ r.err = ""
    /\ ~r.Added
    /\ r.SkipReason \in {"blocked_source"} \cup DuplicateReasons
    /\ r.Image = NoImage
    /\ r.SkipReason \in {"duplicate_hash", "duplicate_source_race", "duplicate_hash_race"}
       => r.ContentHash # NoHash

ErrorVariant(r) ==
    /\ r.err # ""
    /\ ~r.Added
    /\ r.SkipReason = ""
    /\ r.Image = NoImage
    /\ r.Counts = [H |-> 0, V |-> 0]
    /\ r.ContentHash = NoHash

\* C24: every return of StoreToGallery is exactly one of: added (nil error,
\* Added=true, no skip reason, an active image, ContentHash equal to the
\* image's sha256), skip (nil error, Added=false, one of the five reasons,
\* with ContentHash set for duplicate_hash and both race reasons, the
\* fingerprint of the call's picture), or error (non-nil error, zero result).
C24_ThreeVariants ==
    \A c \in Calls :
        Done(c)
        => /\ Cardinality({v \in {"added", "skip", "error"} :
                              \/ v = "added" /\ AddedVariant(res[c])
                              \/ v = "skip" /\ SkipVariant(res[c])
                              \/ v = "error" /\ ErrorVariant(res[c])}) = 1
           /\ (res[c].err = "" /\ res[c].ContentHash # NoHash)
              => res[c].ContentHash = prepared[c].SHA256

\* The calls have returned two different variants, one of them a skip that
\* carries the fingerprint.
C24_Witness ==
    \E c, d \in Calls :
        /\ Done(c)
        /\ Done(d)
        /\ SkipVariant(res[c])
        /\ res[c].SkipReason = "duplicate_hash"
        /\ res[c].ContentHash # NoHash
        /\ AddedVariant(res[d]) \/ ErrorVariant(res[d])

----------------------------------------------------------------------------
\* Call d's record was inserted while call c was running: d holds a record
\* and had not returned when c started.
CommittedDuring(d, c) ==
    /\ d # c
    /\ Inserted(d)
    /\ d \notin before[c]
    /\ InsertRow(BuildImage(d)) \in records

\* C25: a call returns duplicate_source_race (duplicate_hash_race) only
\* after its pre-lock check of the source_key (fingerprint) was answered and
\* found nothing and its in-lock recheck found a record, and that record is
\* one another call inserted while this call was running; it is never the
\* record that existed before, nor one of a call that had returned before
\* this call started.
C25_RaceReasonsMeanContention ==
    \A c \in Calls :
        /\ (Skipped(c) /\ res[c].SkipReason = "duplicate_source_race")
           => /\ Len(log[c]) = 5
              /\ log[c][2] = [op |-> "ExistsGallerySourceKey", ok |-> TRUE]
              /\ log[c][5] = [op |-> "ExistsGallerySourceKey", ok |-> TRUE]
              /\ \E d \in Calls :
                    /\ CommittedDuring(d, c)
                    /\ in[d].SourceKey = in[c].SourceKey
              /\ \A d \in before[c] : in[d].SourceKey # in[c].SourceKey
              /\ PreImage.source_key # in[c].SourceKey
        /\ (Skipped(c) /\ res[c].SkipReason = "duplicate_hash_race")
           => /\ Len(log[c]) = 6
              /\ log[c][4] = [op |-> "ExistsGallerySHA256", ok |-> TRUE]
              /\ log[c][6] = [op |-> "ExistsGallerySHA256", ok |-> TRUE]
              /\ \E d \in Calls :
                    /\ CommittedDuring(d, c)
                    /\ prepared[d].SHA256 = prepared[c].SHA256
              /\ \A d \in before[c] : prepared[d].SHA256 # prepared[c].SHA256
              /\ PreImage.sha256 # prepared[c].SHA256

\* One call returned duplicate_source_race after a concurrent call of the
\* same source_key and another picture was inserted.
C25_Witness ==
    \E c, d \in Calls :
        /\ Skipped(c)
        /\ res[c].SkipReason = "duplicate_source_race"
        /\ CommittedDuring(d, c)
        /\ in[d].SourceKey = in[c].SourceKey
        /\ prepared[d].SHA256 # prepared[c].SHA256

----------------------------------------------------------------------------
\* C27: the mutexes belong to the Service instance.  A call that waits at
\* lock.Lock() can take its mutex whenever no other call of the same
\* instance and orientation is between lock acquisition and return, whatever
\* the calls on the other instance hold; the mutex a call holds is a field
\* of the instance it was invoked on.
C27_LocksPerInstance ==
    \A c \in Calls :
        /\ (pc[c] = "Lock"
              /\ ~\E d \in Calls :
                    /\ d # c
                    /\ on[d] = on[c]
                    /\ InSpan(d)
                    /\ prepared[d].Orientation = prepared[c].Orientation)
           => ENABLED Lock(c)
        /\ lock[c] # "" => lock[c] \in {ServiceMu[on[c]].muH, ServiceMu[on[c]].muV}

\* Two calls of the same orientation, one on each instance, are both inside
\* their critical sections and were given the same sequence number.
C27_Witness ==
    \E c, d \in Calls :
        /\ on[c] # on[d]
        /\ prepared[c].Orientation = prepared[d].Orientation
        /\ lock[c] # ""
        /\ lock[d] # ""
        /\ pc[c] \in {"PutObject", "InsertGalleryImage"}
        /\ pc[d] \in {"PutObject", "InsertGalleryImage"}
        /\ seq[c] = seq[d]
        /\ seq[c] = PreSeq + 1

----------------------------------------------------------------------------
\* Prepare has been applied to the job's bytes and succeeded.
PreparedOnce == job.kind = "Prepare" /\ job.step \in {"once", "twice"} /\ job.first.ok

\* Prepare has also been applied to the bytes it returned.
PreparedTwice == job.kind = "Prepare" /\ job.step = "twice"

\* C26: Prepare on WebP input returns the input bytes themselves and the
\* SHA-256 of exactly those bytes; Prepare applied to the bytes a successful
\* Prepare returned (passed through or written by cwebp) succeeds and returns
\* the same bytes and the same fingerprint.
C26_PassThroughIdempotent ==
    /\ (PreparedOnce /\ job.data.fmt = "webp")
       => /\ job.first.WebPBytes = job.data
          /\ job.first.SHA256 = SHA256(job.data)
    /\ (job.kind = "Prepare" /\ job.step = "once" /\ job.data.fmt = "webp"
          /\ job.data.len > 0 /\ job.data.w > 0 /\ job.data.h > 0)
       => job.first.ok
    /\ PreparedTwice
       => /\ job.second.ok
          /\ job.second.WebPBytes = job.first.WebPBytes
          /\ job.second.SHA256 = job.first.SHA256

\* Prepare was applied twice, starting from a WebP picture.
C26_Witness ==
    /\ PreparedTwice
    /\ job.data.fmt = "webp"
    /\ job.second.WebPBytes = job.data
    /\ job.second.SHA256 = SHA256(job.data)

----------------------------------------------------------------------------
\* C28: the orientation Prepare reports is v exactly when the reported height
\* exceeds the reported width (a square is h); a passed-through picture has
\* the dimensions of the input, a re-encoded one those of the file cwebp
\* wrote, whatever the dimensions of the source were.
C28_OrientationFromOutput ==
    PreparedOnce
    => /\ job.first.Orientation = (IF job.first.Height > job.first.Width THEN "v" ELSE "h")
       /\ IF job.data.fmt = "webp"
          THEN job.first.Width = job.data.w /\ job.first.Height = job.data.h
          ELSE job.first.Width = job.out.w /\ job.first.Height = job.out.h

\* A source that is wider than high was re-encoded to a file that is higher
\* than wide, and the result is v; and a square is h.
C28_Witness ==
    /\ PreparedOnce
    /\ job.data.fmt = "png"
    /\ job.data.w > job.data.h
    /\ job.out.h > job.out.w
    /\ job.first.Orientation = "v"
    /\ PrepareWith(Bytes("webp", 1, 1, "p", 3), TRUE, EmptyData).Orientation = "h"

----------------------------------------------------------------------------
\* C29: the fingerprint a successful Prepare reports is the SHA-256 of the
\* bytes it returns and the byte count is their length, on both paths; for
\* any other successful Prepare, the fingerprints are equal exactly when the
\* returned bytes are.
C29_FingerprintOfCanonicalBytes ==
    PreparedOnce
    => /\ job.first.SHA256 = SHA256(job.first.WebPBytes)
       /\ job.first.Bytes = job.first.WebPBytes.len
       /\ job.data.fmt # "webp" => job.first.WebPBytes = job.out
       /\ \A d \in PrepareData, o \in EncoderOutputs :
             LET q == PrepareWith(d, TRUE, o) IN
             q.ok => ((q.SHA256 = job.first.SHA256) <=> (q.WebPBytes = job.first.WebPBytes))

\* A re-encoded picture: the fingerprint is the one of cwebp's file, not of
\* the input, and the byte counts differ.
C29_Witness ==
    /\ PreparedOnce
    /\ job.data.fmt = "gif"
    /\ job.first.SHA256 = SHA256(job.out)
    /\ job.first.SHA256 # SHA256(job.data)
    /\ job.first.Bytes # job.data.len

----------------------------------------------------------------------------
\* The first n elements of a sequence, all of them when it is shorter.
FirstChars(s, n) == SubSeq(s, 1, IF Len(s) < n THEN Len(s) ELSE n)

\* C30: pickID returns the trimmed caller-supplied id when that is not
\* blank, otherwise the trimmed source key when that is not blank (the case
\* of every record StoreToGallery inserts, whose source_key is never blank);
\* only when both are blank "sha256_" followed by the first 24 characters of
\* the fingerprint, and only when the fingerprint is blank too a time-derived
\* id.
C30_IdPreference ==
    (job.kind = "pickID" /\ job.step = "once")
    => LET p == TrimSpace(job.preferred)
           k == TrimSpace(job.sourceKey)
           h == TrimSpace(job.sha)
       IN  /\ p # <<>> => job.id = p
           /\ (p = <<>> /\ k # <<>>) => job.id = k
           /\ (p = <<>> /\ k = <<>> /\ h # <<>>)
              => job.id = <<"sha256_">> \o FirstChars(h, 24)
           /\ (p = <<>> /\ k = <<>> /\ h = <<>>) => job.id = <<"img_", "now">>
           /\ job.id # <<>>

\* pickID fell back to the prefix of a 64-character fingerprint.
C30_Witness ==
    /\ job.kind = "pickID"
    /\ job.step = "once"
    /\ TrimSpace(job.preferred) = <<>>
    /\ TrimSpace(job.sourceKey) = <<>>
    /\ Len(job.sha) = 64
    /\ Len(job.id) = 25
    /\ job.id[25] = job.sha[24]

----------------------------------------------------------------------------
\* C31

\* Largest sequence number whose key is compared with the keys of the
\* records.
MaxKeySeq == 12

\* The text "ri/<orientation>/<seq>.webp", seq in decimal.
KeyText(o, n) == "ri/" \o o \o "/" \o ToString(n) \o ".webp"

\* C31: every record StoreToGallery inserts carries the r2_key
\* "ri/<orientation>/<seq>.webp" of its own orientation and seq, which are
\* those the call prepared and allocated; the upload of that call stored the
\* payload under exactly that key; and no other (orientation, seq) pair is
\* given the key of a record.
C31_KeyFromOrientationAndSeq ==
    [][/\ \A c \in Calls :
             (pc[c] = "InsertGalleryImage" /\ records' # records /\ log'[c] # log[c])
                 => \A r \in records' \ records :
                        /\ r.orientation = prepared[c].Orientation
                        /\ r.seq = seq[c]
                        /\ r.r2_key = KeyText(r.orientation, r.seq)
                        /\ log[c][Len(log[c])] = [op |-> "PutObject", ok |-> TRUE]
       /\ \A c \in Calls :
             (pc[c] = "PutObject" /\ log'[c] = Append(log[c], [op |-> "PutObject", ok |-> TRUE]))
                 => [key |-> KeyText(prepared[c].Orientation, seq[c]),
                     data |-> prepared[c].WebPBytes] \in blobs'
       /\ \A r \in records' :
             \A o \in {"h", "v"}, n \in 0..MaxKeySeq :
                 <<o, n>> # <<r.orientation, r.seq>> => R2Key(o, n) # r.r2_key]_vars

\* Witness: a call inserted a record whose key is the text built from its
\* orientation and seq, and the payload it prepared is stored under that key.
C31_Witness ==
    \E c \in Calls :
        /\ Inserted(c)
        /\ \E r \in records \ {PreImage} :
              /\ r.seq = seq[c]
              /\ r.orientation = prepared[c].Orientation
              /\ r.r2_key = KeyText(prepared[c].Orientation, seq[c])
              /\ [key |-> r.r2_key, data |-> prepared[c].WebPBytes] \in blobs

----------------------------------------------------------------------------
\* C32

\* The call has made its scratch directory and has not yet removed it.
HasScratch(e) == enc[e].pc \in {"Create", "png.Encode", "Close", "cwebp", "ReadFile", "defer"}

\* The paths at or below the scratch directory named d.
Below(paths, d) == {f \in paths : f.dir = d}

\* C32: the scratch directory of an encodeWithCWebP call is fresh (it did not
\* exist before os.MkdirTemp and is empty after it), two calls in progress
\* never have the same directory, and when a call returns, on whichever exit
\* path, its directory and everything below it no longer exist, so that
\* every path under the temporary directory belongs to a call in progress.
C32_ScratchDirRemoved ==
    [][/\ \A e \in Encoders :
             (enc[e].pc = "MkdirTemp" /\ enc'[e].pc = "Create")
                 => /\ Below(tmp, enc'[e].tmpDir) = {}
                    /\ Below(tmp', enc'[e].tmpDir) = {Path(enc'[e].tmpDir, "")}
       /\ \A e \in Encoders :
             (enc[e].pc # "returned" /\ enc'[e].pc = "returned")
                 => enc[e].tmpDir = 0 \/ Below(tmp', enc[e].tmpDir) = {}
       /\ \A e, f \in Encoders :
             (e # f /\ HasScratch(e)' /\ HasScratch(f)') => enc'[e].tmpDir # enc'[f].tmpDir
       /\ \A e \in Encoders : HasScratch(e)' => Path(enc'[e].tmpDir, "") \in tmp'
       /\ \A p \in tmp' : \E e \in Encoders : HasScratch(e)' /\ enc'[e].tmpDir = p.dir]_vars

\* Witness: one call failed on an empty output file, another call, which drew
\* the same directory name, returned data, and nothing is left under the
\* temporary directory.
C32_Witness ==
    /\ tmp = {}
    /\ \E e, f \in Encoders :
          /\ e # f
          /\ enc[e].pc = "returned" /\ enc[e].err = "cwebp produced empty output"
          /\ enc[e].tmpDir # 0
          /\ enc[f].pc = "returned" /\ enc[f].err = "" /\ enc[f].data > 0
          /\ enc[f].tmpDir = enc[e].tmpDir

----------------------------------------------------------------------------
\* C33

\* The decimal texts of the numbers lo..hi.
Numerals(lo, hi) == {ToString(n) : n \in lo..hi}

\* C33: whatever integers the processor is configured with, the quality
\* given to cwebp after -q is within 0..100 and the method given after -m is
\* within 0..6; each is the configured value when that value is in its range
\* and otherwise its default, 84 or 4, whatever the other one is.
C33_QualityAndMethodInRange ==
    (job.kind = "EncoderArgs" /\ job.step = "once")
        => /\ job.args[3] = "-q" /\ job.args[5] = "-m"
           /\ job.args[4] \in Numerals(0, 100)
           /\ job.args[6] \in Numerals(0, 6)
           /\ job.args[4] = IF ~job.p.nil /\ job.p.Quality \in 0..100
                            THEN ToString(job.p.Quality) ELSE "84"
           /\ job.args[6] = IF ~job.p.nil /\ job.p.Method \in 0..6
                            THEN ToString(job.p.Method) ELSE "4"

\* Witness: the configured quality is above its range and the configured
\* method is the largest valid one; cwebp is given -q 84 -m 6.
C33_Witness ==
    /\ job.kind = "EncoderArgs" /\ job.step = "once"
    /\ ~job.p.nil /\ job.p.Quality = 101 /\ job.p.Method = 6
    /\ job.args[4] = "84" /\ job.args[6] = "6"

----------------------------------------------------------------------------
\* C34: with one Service instance as the only writer, whenever a call
\* attempts InsertGalleryImage, no existing record has the sha256 the call
\* prepared, the (orientation, seq) pair it allocated, or the r2_key built
\* from them: the mutex and the rechecks made under it leave nothing for the
\* table's uniqueness constraints on those columns to reject.
C34_LockAndRecheckCloseRace ==
    [][\A c \in Calls :
          (pc[c] = "InsertGalleryImage" /\ pc'[c] # "InsertGalleryImage")
              => \A r \in records :
                    /\ r.sha256 # prepared[c].SHA256
                    /\ ~(r.orientation = prepared[c].Orientation /\ r.seq = seq[c])
                    /\ r.r2_key # KeyText(prepared[c].Orientation, seq[c])]_vars

\* Witness: two calls with the same payload and different source keys raced;
\* one was inserted with the next seq, the other found the fingerprint under
\* the mutex and made no insert attempt.
C34_Witness ==
    \E c, d \in Calls :
        /\ c # d
        /\ Inserted(c)
        /\ seq[c] = PreSeq + 1
        /\ prepared[d].ok /\ prepared[d].SHA256 = prepared[c].SHA256
        /\ in[d].SourceKey # in[c].SourceKey
        /\ Done(d) /\ res[d].SkipReason = "duplicate_hash_race"
        /\ \A i \in 1..Len(log[d]) : log[d][i].op # "InsertGalleryImage"

----------------------------------------------------------------------------
\* C35: the compensating DeleteObject removes only blobs that no record
\* references: whenever a call whose insert was rejected deletes an object,
\* also when a second Service instance writes to the same stores, the key of
\* the deleted object is not the r2_key of any existing record.
C35_DeleteOnlyUnreferenced ==
    [][\A c \in Calls :
          (pc[c] = "DeleteObject" /\ log'[c] # log[c])
              => \A b \in blobs :
                    (\A x \in blobs' : x.key # b.key)
                        => \A r \in records : r.r2_key # b.key]_vars

\* C35, amended: the compensating DeleteObject never removes a blob that a
\* record committed through the same Service instance, or present before
\* the calls, references: whenever the deleted key is the r2_key of an
\* existing record, that record was inserted by a call on another instance
\* that had been given the same (orientation, seq).
C35_DeleteSparesOwnInstance ==
    [][\A c \in Calls :
          (pc[c] = "DeleteObject" /\ log'[c] # log[c])
              => \A b \in blobs :
                    (\A x \in blobs' : x.key # b.key)
                        => \A r \in records :
                              r.r2_key = b.key
                                  => \E d \in Calls :
                                        /\ on[d] # on[c]
                                        /\ Inserted(d)
                                        /\ r.seq = seq[d] /\ seq[d] = seq[c]
                                        /\ r.orientation = prepared[d].Orientation]_vars

\* Witness: two calls on different instances were given the same seq; one
\* committed its record, the other's insert was rejected and its
\* compensating delete was answered, and the blob of the committed record
\* is gone.
C35_Witness ==
    \E c, d \in Calls :
        /\ on[c] # on[d]
        /\ Inserted(d)
        /\ Done(c) /\ res[c].err = "insert gallery image: constraint"
        /\ log[c][Len(log[c])] = [op |-> "DeleteObject", ok |-> TRUE]
        /\ seq[c] = seq[d]
        /\ \E r \in records :
              /\ r.seq = seq[d] /\ r.orientation = prepared[d].Orientation
              /\ \A b \in blobs : b.key # r.r2_key

----------------------------------------------------------------------------
\* C36: a call that has returned holds no mutex and every locked mutex is
\* held by a call that has not returned, whichever way the call left the
\* locked section; so, when every goroutine that can step eventually does
\* and every store request is answered, a call waiting for a mutex
\* eventually acquires it and every call that has started eventually
\* returns.
C36_LockAlwaysReleased ==
    /\ [](\A c \in Calls : Done(c) => lock[c] = "")
    /\ [](\A m \in Mutexes : mu[m] => \E c \in Calls : ~Done(c) /\ lock[c] = m)
    /\ \A c \in Calls : (pc[c] = "Lock") ~> (lock[c] # "")
    /\ \A c \in Calls : (pc[c] \notin {"idle", "done"}) ~> Done(c)

\* Witness: a call left the locked section through a failed upload, and
\* another call of the same orientation has since acquired the mutex.
C36_Witness ==
    \E c, d \in Calls :
        /\ c # d
        /\ Done(c) /\ res[c].err = "upload r2"
        /\ lock[c] = ""
        /\ prepared[d].Orientation = prepared[c].Orientation
        /\ lock[d] = orientationLock(on[d], prepared[c].Orientation)
        /\ mu[lock[d]]

----------------------------------------------------------------------------
\* C37

\* The last id of the author as the next crawl would read it.
PersistedID(rows) ==
    IF \E r \in rows : r.key = twitterStateKey
    THEN ParseInt((CHOOSE r \in rows : r.key = twitterStateKey).value).n
    ELSE 0

\* C37: the persisted last id of an author never decreases; it is written
\* only with a value strictly greater than the previous one, and that value
\* is the id of a candidate whose ingest returned no error in the crawl that
\* writes it; and no crawl ingests a candidate whose id is not above the
\* persisted last id.
C37_LastIDMonotone ==
    [][/\ PersistedID(crawlerState') >= PersistedID(crawlerState)
       /\ crawlerState' # crawlerState
             => /\ PersistedID(crawlerState') > PersistedID(crawlerState)
                /\ PersistedID(crawlerState') \in tw.succeeded
                /\ crawlerState' = {[key |-> twitterStateKey,
                                     value |-> FormatInt64(PersistedID(crawlerState'))]}
       /\ (tw.pc = "ingestTwitterFromLink" /\ tw'.i = tw.i + 1)
             => tw.candidates[tw.i] > PersistedID(crawlerState)]_vars

\* Witness: a second crawl read the id an earlier crawl had written, ingested
\* a later tweet and wrote that tweet's id.
C37_Witness ==
    /\ tw.pc = "idle"
    /\ tw.crawls >= 2
    /\ tw.lastID > 1
    /\ tw.succeeded # {}
    /\ PersistedID(crawlerState) > tw.lastID
    /\ PersistedID(crawlerState) \in tw.succeeded

----------------------------------------------------------------------------
\* C38: a tweet whose ingest returned an error stays eligible for the next
\* crawl of the author: when crawlTwitterAuthorUser has returned, the
\* persisted last id is smaller than the id of every candidate whose ingest
\* failed in that crawl.
C38_FailedStaysEligible ==
    (tw.pc = "idle" /\ tw.crawls > 0)
        => \A id \in tw.failed : PersistedID(crawlerState) < id

----------------------------------------------------------------------------
\* C39

\* The errors after which a further attempt is allowed.
RetryableErrors == {"context deadline exceeded", "net timeout", "connection reset by peer"}

\* The largest number of attempts a call asked for `asked` retries may make.
AttemptBound == IF dl.asked < 0 THEN 1 ELSE dl.asked + 1

\* What every state of a downloadWithHeadersRetry call satisfies.
C39_Attempts ==
    LET n == Len(dl.history) IN
    /\ n <= AttemptBound
    /\ \A k \in 1..(n - 1) : ~dl.history[k].ok /\ dl.history[k].err \in RetryableErrors
    /\ dl.waitCancelled => dl.pc = "returned"
    /\ dl.pc = "returned"
          => /\ n >= 1
             /\ IF dl.history[n].ok
                THEN dl.err = "" /\ dl.data = dl.history[n].data
                ELSE dl.err = dl.history[n].err /\ dl.data = 0
             /\ (~dl.history[n].ok /\ dl.history[n].err \in RetryableErrors /\ n < AttemptBound)
                   => dl.cancelled

\* C39: downloadWithHeadersRetry returns, after at most retries+1 download
\* attempts (one when retries is negative); every attempt but the last
\* failed with a retryable error, so the data returned is that of the first
\* successful attempt and no attempt follows a non-retryable error; no
\* attempt follows a cancellation of ctx during the backoff wait; and in
\* every case without data the error returned is that of the last attempt
\* made, the attempts ending early only because ctx was cancelled.
C39_RetryTerminates ==
    /\ []C39_Attempts
    /\ (dl.pc = "idle") ~> (dl.pc = "returned")

\* Witness: asked for two retries, the call made two attempts that timed
\* out and was cancelled during the second backoff wait; it returned the
\* error of the second attempt.
C39_Witness ==
    /\ dl.pc = "returned"
    /\ dl.asked = 2
    /\ Len(dl.history) = 2
    /\ dl.waitCancelled
    /\ dl.history[1].err = "connection reset by peer"
    /\ dl.err = "net timeout"

----------------------------------------------------------------------------
\* C40

\* The row that says the bootstrap crawl has been made.
BootstrapFlag == [key |-> "pixiv_bootstrap_done", value |-> <<"1">>]

\* The page limit of an incremental crawl.
IncrementalLimit ==
    IF pixiv.cfg.PixivIncrementalMaxPages >= 0 THEN pixiv.cfg.PixivIncrementalMaxPages ELSE 2

\* The flag was written only by crawls whose pass was not cut short.
C40_WrittenAfterFullPass ==
    \A k \in 1..Len(pixiv.history) :
        pixiv.history[k].wrote
            => ~pixiv.history[k].listingFailed /\ ~pixiv.history[k].abandoned

\* The flag, once set, is set at the start of every later crawl and now.
C40_NeverCleared ==
    \A k \in 1..Len(pixiv.history) :
        (pixiv.history[k].flag \/ pixiv.history[k].wrote)
            => /\ BootstrapFlag \in crawlerState
               /\ \A j \in (k + 1)..Len(pixiv.history) : pixiv.history[j].flag

\* C40: crawlPixivOnce writes pixiv_bootstrap_done = "1" only after a pass
\* whose listing returned no error and that was not abandoned on a cancelled
\* ctx; the flag is never cleared; and every crawl that starts with the flag
\* set runs in incremental mode with the incremental page limit.
C40_BootstrapOnce ==
    /\ C40_WrittenAfterFullPass
    /\ C40_NeverCleared
    /\ \A k \in 1..Len(pixiv.history) :
          pixiv.history[k].flag
              => /\ pixiv.history[k].bootstrapDone
                 /\ pixiv.history[k].maxPages = IncrementalLimit

====
